---- MODULE Spec2Model ----
(***************************************************************************)
(* A model of switchboard.js: the Switchboard supervisor                   *)
(* (src/src/switchboard.ts, second copy of the class, lines 529-1215),     *)
(* the two rendezvous connectors (src/src/tracker.ts,                      *)
(* src/src/sps-connector.ts) and the InfoHash computation.                 *)
(*                                                                         *)
(* Strings are sequences of small integers (one integer per character).    *)
(* The external primitives are modelled symbolically: SHA-1 is an          *)
(* injective function, an Ed25519 signature is the pair (signer, message)  *)
(* and verifies exactly for that signer and that message.                  *)
(***************************************************************************)
EXTENDS Integers, Sequences, FiniteSets, TLC

(***************************************************************************)
(* Bounds of the model.                                                    *)
(***************************************************************************)
NumKeys == 2          \* remote key pairs 1..NumKeys
NumSdps == 2          \* distinct SDP texts 1..NumSdps
MaxSessions == 3      \* candidate Peer Sessions the connectors create
NumConnectors == 2    \* entries of trackerOpts
MaxKillEmits == 2     \* kill() is not called again after this many `kill` events
MaxTimers == 2        \* reconnect timers a connector has pending at once
MaxOldSocks == 2      \* replaced sockets whose close event is still to come
MaxReconnects == 2    \* SpsOptions.maxReconnects
MaxStrLen == 2        \* length of a realm and of a swarm ID
BlacklistTicks == 2   \* the finite clientBlacklistDuration, in clock ticks
MaxItems == 3         \* items the application passes to Peer.send()
MaxAddMedia == 2      \* addMedia() calls at each end of a session
MaxOffers == 6        \* offers one TrackerConnector creates
Invites == 2          \* offers generated for one announce (10 in the source)
MaxHandles == 3       \* subscribe()/once() calls on one Subscribable
MaxListeners == 3     \* on()/once()/permanent() calls on one PeerWrapper
NumSocks == 3         \* sockets the peering server accepts
NumRelaySocks == 2    \* sockets accepted where every intro packet is tried

(***************************************************************************)
(* Program constants.                                                      *)
(***************************************************************************)
SHORT_ID_LENGTH == 20
DEFAULT_MAX_RETRIES == 2
DEFAULT_MAX_PEERS == 500
MAX_CONNECT_TRIES == 10
RECONNECT_UNIT == 2000   \* milliseconds of backoff per reconnect try
Infinity == 0 - 1     \* JavaScript's Infinity; see Plus and Greater

Keys == 1..NumKeys
SDPs == 1..NumSdps
Sessions == 1..MaxSessions
Connectors == 1..NumConnectors
NoId == << >>         \* '' and null: both falsy in the code

Min(a, b) == IF a < b THEN a ELSE b

\* a + b and a > b on numbers that may be Infinity
Plus(a, b) == IF a = Infinity \/ b = Infinity THEN Infinity ELSE a + b
Greater(a, b) ==
    IF a = Infinity THEN b # Infinity
    ELSE IF b = Infinity THEN FALSE ELSE a > b

\* String.prototype.substr(0, n)
Substr(str, n) == SubSeq(str, 1, Min(n, Len(str)))

\* sha1(pubKey) as 40 hex digits: injective on Keys, also on the first digit
Sha1HexLen == 2 * SHORT_ID_LENGTH
makeFullID(pubKey) == [i \in 1..Sha1HexLen |-> (pubKey * i) % 16]
makeID(pubKey) == Substr(makeFullID(pubKey), SHORT_ID_LENGTH)

\* sha1(sdp) as the ASCII hex text written into the auth packet
Sha1Sdp(sdp) == 100 + sdp

MapPut(m, k, v) == [x \in (DOMAIN m) \cup {k} |-> IF x = k THEN v ELSE m[x]]
MapDel(m, k) == [x \in (DOMAIN m) \ {k} |-> m[x]]
EmptyMap == [x \in {} |-> 0]

(***************************************************************************)
(* State.                                                                  *)
(***************************************************************************)
VARIABLES
    opts,             \* SBClientOptions: clientMaxRetries, clientBlacklistDuration (0 = unset)
    required,         \* the connectors whose TrackerOptions.isRequired is true
    started,          \* host(), findHost() or swarm() has been called
    wantedPeerCount,  \* Switchboard.wantedPeerCount
    wantedSpecificID, \* Switchboard.wantedSpecificID (NoId = null)
    killed,           \* Switchboard.killed
    trackers,         \* Switchboard.trackers: the connectors still tracked
    connState,        \* per connector: "none", "connecting", "open" or "dead"
    canEmit,          \* start(): the closure variable guarding `connected`
    connected,        \* Switchboard.connected: peer.id -> session
    blacklist,        \* Switchboard.blacklist: peer.id -> failure count
    blTimers,         \* pending setTimeout()s of addPeerFailure: [id, rem]
    peers,            \* the candidate Peer Sessions: [st, id, sps], and once
                      \* authenticated the packet verified and the remote SDP
    spsPeers,         \* SpsConnector.peers of each connector: id -> session
    nextPeer,         \* number of sessions created so far
    peerEmitted,      \* sessions given to the application by a `peer` event
    killEmits,        \* number of `kill` events the Switchboard has emitted
    emitted,          \* the events emitted by the last handler, in order
    last,             \* the last handler that ran and its inputs
    connector,        \* one connector seen from inside: its sockets and timers
    instances,        \* two Switchboards: the realm and the infoHash of each
    session,          \* one Peer Session seen from inside (src/src/peer.ts)
    link,             \* the two ends of an established session and the
                      \* `_meta` messages in flight between them
    offers,           \* the Offer Table of one TrackerConnector
    subs,             \* one Subscribable: its callbacks (src/unnamed/part_004)
    wrapper,          \* one PeerWrapper: its listeners and permanent handlers
    server,           \* the peering server: its sockets and client table
    cands             \* the candidates handed to onPeer and their timers

vars == <<opts, required, started, wantedPeerCount, wantedSpecificID, killed,
          trackers, connState, canEmit, connected, blacklist, blTimers, peers,
          spsPeers, nextPeer, peerEmitted, killEmits, emitted, last, connector, instances,
          session, link, offers, subs, wrapper, server, cands>>

\* the state the supervisor's own handlers never touch
aside == <<connector, instances, session, link, offers, subs, wrapper, server,
           cands>>

\* the emitters and the peering server
beside == <<subs, wrapper, server, cands>>

\* TrackerOptions.isNativeServer: the even entries are SPS servers
isNativeServer(t) == t % 2 = 0

Ev(name, arg) == [ev |-> name, arg |-> arg]
NoPeer == [st |-> "none", id |-> NoId]
ClosedPeer == [st |-> "closed", id |-> NoId]

(***************************************************************************)
(* The auth packet.  BufferWrapper splits it into pub, sdp and sig; nacl    *)
(* rejects every pub that is not 32 bytes and every sig that is not 64, so  *)
(* the two length bytes leave no choice and the packet is its three fields. *)
(***************************************************************************)
Hashes == {Sha1Sdp(x) : x \in SDPs}
Sigs(pub) == [signer : Keys, msg : {<<pub, h>> : h \in Hashes}]
Packets == UNION {[pub : {k}, sdp : Hashes, sig : Sigs(k)] : k \in Keys}

\* nacl.sign.detached.verify(msg, sig, publicKey)
NaclVerify(msg, sig, pub) == sig.signer = pub /\ sig.msg = msg

\* nacl.sign.detached(msg, secretKey) by the holder of key k
NaclSign(msg, k) == [signer |-> k, msg |-> msg]

\* Switchboard.makeSigPacket as run by the remote peer holding key k
makeSigPacket(k, localSdp) ==
    [pub |-> k, sdp |-> Sha1Sdp(localSdp),
     sig |-> NaclSign(<<k, Sha1Sdp(localSdp)>>, k)]

\* verifyPacket without the signature check
verifyPacket_NoSignature(peerID, packet, wantedID, remoteSdp) ==
    LET fullId == makeFullID(packet.pub) IN
    IF wantedID # NoId /\ Substr(fullId, Len(wantedID)) # wantedID THEN FALSE
    ELSE IF peerID = NoId \/ Substr(fullId, Len(peerID)) # peerID THEN FALSE
    ELSE IF packet.sdp # Sha1Sdp(remoteSdp) \/ remoteSdp = 0 THEN FALSE
    ELSE TRUE

\* verifyPacket without the comparison of the signed hash with the remote SDP
verifyPacket_NoSdpHash(peerID, packet, wantedID, remoteSdp) ==
    LET fullId == makeFullID(packet.pub) IN
    IF wantedID # NoId /\ Substr(fullId, Len(wantedID)) # wantedID THEN FALSE
    ELSE IF peerID = NoId \/ Substr(fullId, Len(peerID)) # peerID THEN FALSE
    ELSE IF ~NaclVerify(<<packet.pub, packet.sdp>>, packet.sig, packet.pub) THEN FALSE
    ELSE TRUE

\* Switchboard.verifyPacket: TRUE when it returns, FALSE when it throws
\* ClientAuthError.  remoteSdp = 0 is the empty string.
verifyPacket(peerID, packet, wantedID, remoteSdp) ==
    LET fullId == makeFullID(packet.pub) IN
    IF wantedID # NoId /\ Substr(fullId, Len(wantedID)) # wantedID THEN FALSE
    ELSE IF peerID = NoId \/ Substr(fullId, Len(peerID)) # peerID THEN FALSE
    ELSE IF ~NaclVerify(<<packet.pub, packet.sdp>>, packet.sig, packet.pub) THEN FALSE
    ELSE IF packet.sdp # Sha1Sdp(remoteSdp) \/ remoteSdp = 0 THEN FALSE
    ELSE TRUE

(***************************************************************************)
(* Blacklist.                                                              *)
(***************************************************************************)
maxRetries ==
    IF opts.clientMaxRetries # 0 THEN opts.clientMaxRetries ELSE DEFAULT_MAX_RETRIES

\* Switchboard.isBlackListed, on a given blacklist
isBlackListedIn(bl, peerID) ==
    /\ peerID \in DOMAIN bl
    /\ bl[peerID] # 0
    /\ Greater(bl[peerID], maxRetries)

isBlackListed(peerID) == isBlackListedIn(blacklist, peerID)

\* Switchboard.addPeerFailure(peer, increment); increment = 0 is "not given".
\* The result: the new blacklist, the new timers and the events emitted.
addPeerFailure(bl, tm, id, increment) ==
    LET inc == IF increment = 0
               THEN (IF opts.clientMaxRetries # 0 THEN opts.clientMaxRetries ELSE Infinity)
               ELSE increment
        nb == MapPut(bl, id, Plus(IF id \in DOMAIN bl THEN bl[id] ELSE 0, inc))
    IN  IF isBlackListedIn(bl, id) THEN [bl |-> bl, tm |-> tm, ev |-> << >>]
        ELSE IF opts.clientBlacklistDuration = 0 THEN [bl |-> bl, tm |-> tm, ev |-> << >>]
        ELSE IF isBlackListedIn(nb, id) /\ opts.clientBlacklistDuration # Infinity
             THEN [bl |-> nb,
                   tm |-> tm \cup {[id |-> id, rem |-> opts.clientBlacklistDuration]},
                   ev |-> <<Ev("peer-blacklisted", id)>>]
             ELSE [bl |-> nb, tm |-> tm, ev |-> << >>]

\* shouldBlockConnection with the peer count taken from `connected`
shouldBlockConnection_ConnectedCount(peerID) ==
    LET shortest == Min(Len(peerID),
                        IF Len(wantedSpecificID) # 0 THEN Len(wantedSpecificID)
                        ELSE Len(peerID))
        peerNorm == Substr(peerID, shortest)
        wantedNorm == Substr(wantedSpecificID, shortest)
    IN  \/ isBlackListed(peerID)
        \/ (wantedSpecificID # NoId /\ peerNorm # wantedNorm)
        \/ peerID \in DOMAIN connected
        \/ Cardinality(DOMAIN connected) >= wantedPeerCount

\* Switchboard.shouldBlockConnection(peerID): the admission gate
shouldBlockConnection(peerID) ==
    LET shortest == Min(Len(peerID),
                        IF Len(wantedSpecificID) # 0 THEN Len(wantedSpecificID)
                        ELSE Len(peerID))
        peerNorm == Substr(peerID, shortest)
        wantedNorm == Substr(wantedSpecificID, shortest)
    IN  \/ isBlackListed(peerID)
        \/ (wantedSpecificID # NoId /\ peerNorm # wantedNorm)
        \/ peerID \in DOMAIN connected
        \/ Cardinality(DOMAIN blacklist) >= wantedPeerCount

(***************************************************************************)
(* Inputs.                                                                 *)
(***************************************************************************)
\* maxPeers of host() and swarm() (0 = not given)
MaxPeersChoices == {0, 2}

\* hostID of findHost(): a ShortID, a FullID, or a 4-character prefix
HostIdChoices == {makeID(1), makeFullID(1), Substr(makeFullID(1), 4)}

\* peer_id values a tracker relays: the ShortID each remote announces
TrackerIds == {makeID(k) : k \in Keys}

\* ids an SPS server names in JOIN (FullID, or ShortID on the host channel)
SpsJoinIds == {makeFullID(k) : k \in Keys} \cup {makeID(k) : k \in Keys}

\* `from` of a relayed MSG: the sender's FullID
SpsMsgIds == {makeFullID(k) : k \in Keys}

\* every value peer.id can take
PeerIds == TrackerIds \cup SpsJoinIds \cup SpsMsgIds

\* the connector is not looked into
NoConn == [kind |-> "none"]

\* no second Switchboard is looked at
NoInstances == << >>

\* the Peer Session's inside is not looked into
NoSession == [kind |-> "none"]

\* in-band renegotiation is not looked into
NoLink == [kind |-> "none"]

\* the Offer Table is not looked into
NoOffers == [kind |-> "none"]

\* the emitters and the peering server are not looked into
NoSubs == [kind |-> "none"]
NoWrapper == [kind |-> "none"]
NoServer == [kind |-> "none"]

\* the candidates' timers are not looked into
NoCands == [kind |-> "none"]
BesideIdle == subs = NoSubs /\ wrapper = NoWrapper /\ server = NoServer /\ cands = NoCands

(***************************************************************************)
(* Init: a freshly constructed Switchboard.                                *)
(***************************************************************************)
Fresh ==
    /\ started = FALSE
    /\ wantedPeerCount = 0
    /\ wantedSpecificID = NoId
    /\ killed = FALSE
    /\ trackers = {}
    /\ connState = [t \in Connectors |-> "none"]
    /\ canEmit = TRUE
    /\ connected = EmptyMap
    /\ blacklist = EmptyMap
    /\ blTimers = {}
    /\ peers = [s \in Sessions |-> NoPeer]
    /\ spsPeers = [t \in Connectors |-> EmptyMap]
    /\ nextPeer = 0
    /\ peerEmitted = {}
    /\ killEmits = 0
    /\ emitted = << >>
    /\ last = [op |-> "init"]

\* the options when the application passes none: blacklisting is off
DefaultOpts == [clientMaxRetries |-> 0, clientBlacklistDuration |-> 0]

\* a Switchboard constructed with the default options
Init ==
    /\ opts = DefaultOpts
    /\ required = {}
    /\ Fresh
    /\ connector = NoConn
    /\ instances = NoInstances
    /\ session = NoSession
    /\ link = NoLink
    /\ offers = NoOffers
    /\ BesideIdle

\* the supervisor and its connectors
InitConnectors ==
    /\ opts = DefaultOpts
    /\ required \in SUBSET Connectors
    /\ Fresh
    /\ connector = NoConn
    /\ instances = NoInstances
    /\ session = NoSession
    /\ link = NoLink
    /\ offers = NoOffers
    /\ BesideIdle

(***************************************************************************)
(* host(maxPeers), findHost(hostID), swarm(swarmID, maxPeers) and start(): *)
(* one connector per entry of trackerOpts, each told to connect().         *)
(***************************************************************************)
\* checkReady() of start(): the events it emits, given the tracked connectors
checkReady(can, trk, cs) ==
    IF can /\ \A t \in trk : cs[t] = "open" THEN <<Ev("connected", trk)>> ELSE << >>

Start(mode, maxPeers, hostID) ==
    /\ ~started
    /\ started' = TRUE
    /\ wantedPeerCount' =
          IF mode = "JOIN_HOST" THEN 1
          ELSE IF maxPeers # 0 THEN maxPeers ELSE DEFAULT_MAX_PEERS
    /\ wantedSpecificID' = IF mode = "JOIN_HOST" THEN hostID ELSE wantedSpecificID
    /\ trackers' = Connectors
    /\ connState' = [t \in Connectors |-> "connecting"]
    /\ emitted' = << >>
    /\ last' = [op |-> "start", mode |-> mode, maxPeers |-> maxPeers]
    /\ UNCHANGED <<aside, opts, required, killed, canEmit, connected, blacklist, blTimers,
                   peers, spsPeers, nextPeer, peerEmitted, killEmits>>

(***************************************************************************)
(* Connector events seen by the supervisor.                                *)
(***************************************************************************)
\* t.on('connect'): emit tracker-connect, then checkReady()
ConnectorConnect(t) ==
    /\ connState[t] = "connecting"
    /\ connState' = [connState EXCEPT ![t] = "open"]
    /\ LET ready == checkReady(canEmit, trackers, connState') IN
       /\ emitted' = <<Ev("tracker-connect", t)>> \o ready
       /\ canEmit' = (canEmit /\ ready = << >>)
    /\ last' = [op |-> "connect"]
    /\ UNCHANGED <<aside, opts, required, started, wantedPeerCount, wantedSpecificID,
                   killed, trackers, connected, blacklist, blTimers, peers,
                   spsPeers, nextPeer, peerEmitted, killEmits>>

\* t.on('disconnect'): the socket was lost and the connector reconnects
ConnectorDisconnect(t) ==
    /\ connState[t] = "open"
    /\ connState' = [connState EXCEPT ![t] = "connecting"]
    /\ emitted' = <<Ev("warn", "ConnectionFailed")>>
    /\ last' = [op |-> "disconnect"]
    /\ UNCHANGED <<aside, opts, required, started, wantedPeerCount, wantedSpecificID,
                   killed, trackers, canEmit, connected, blacklist, blTimers,
                   peers, spsPeers, nextPeer, peerEmitted, killEmits>>

\* a session closes: the permanent `close` handler of SpsConnector.makePeer
\* also closes the session its connector holds under the same id.  The
\* sessions closed when every session of the set S closes:
closedWith(S) ==
    S \cup {spsPeers[peers[s].sps][peers[s].id] :
               s \in {x \in S : /\ peers[x].sps # 0
                                /\ peers[x].id \in DOMAIN spsPeers[peers[x].sps]}}

\* this.peers.delete(targetId) for every session of S: the peers tables after
\* the `close` handlers (or the `connect` handlers) of the sessions of S ran
spsDeleted(S) ==
    [t \in Connectors |->
        [id \in DOMAIN spsPeers[t] \ {peers[s].id : s \in {x \in S : peers[x].sps = t}}
            |-> spsPeers[t][id]]]

\* the sessions closed are ClosedPeer from then on
ClosePeers(S) == [s \in Sessions |-> IF s \in S THEN ClosedPeer ELSE peers[s]]

\* SpsConnector.kill: fatalError on every session of the connector's table
connectorSessions(trk) ==
    UNION {{spsPeers[t][id] : id \in DOMAIN spsPeers[t]} : t \in trk}

\* Switchboard.kill(error, killPeers): the connectors it kills, the sessions it
\* closes and the events it emits
killTargets(trk) == trk
killEvents(err) == <<Ev("kill", err)>>

\* the sessions kill() closes: every entry of `connected` when killPeers
killClosed(killPeers) ==
    IF killPeers THEN {connected[id] : id \in DOMAIN connected} ELSE {}

\* the state after kill(err, killPeers) ran on the tracked set trk, where cs
\* holds the connectors' states when it is called and dead are the connectors
\* whose own kill() has run by the end of it
KillEffects(trk, dead, cs, err, killPeers) ==
    /\ killed' = TRUE
    /\ connState' = [t \in Connectors |->
                        IF t \in killTargets(trk) THEN "dead" ELSE cs[t]]
    /\ LET gone == connectorSessions(dead) \cup killClosed(killPeers) IN
       /\ peers' = ClosePeers(closedWith(gone))
       /\ spsPeers' = spsDeleted(gone)
    /\ connected' = IF killPeers THEN EmptyMap ELSE connected
    /\ killEmits' = killEmits + Len(killEvents(err))

\* the `kill` handler without the test of isRequired
killIsFatal_EmptyOnly(trk, t) == trk = {}

\* the `kill` handler of start(): does the supervisor kill itself?
killIsFatal(trk, t) == trk = {} \/ t \in required

\* t.on('kill') for a connector that died on its own
ConnectorKill(t) ==
    /\ connState[t] # "none"
    /\ last' = [op |-> "connectorKill", t |-> t, wasKilled |-> killed]
    /\ IF killed
       THEN /\ connState' = [connState EXCEPT ![t] = "dead"]
            /\ emitted' = << >>
            /\ peers' = ClosePeers(connectorSessions({t}))
            /\ spsPeers' = spsDeleted(connectorSessions({t}))
            /\ UNCHANGED <<killed, trackers, canEmit, connected, killEmits>>
       ELSE /\ trackers' = trackers \ {t}
            /\ IF killIsFatal(trackers', t)
               THEN /\ KillEffects(trackers', trackers, [connState EXCEPT ![t] = "dead"],
                                    "ConnectionFailed", FALSE)
                    /\ emitted' = <<Ev("warn", t)>> \o killEvents("ConnectionFailed")
                    /\ UNCHANGED canEmit
               ELSE LET cs == [connState EXCEPT ![t] = "dead"]
                        ready == checkReady(canEmit, trackers', cs) IN
                    /\ connState' = cs
                    /\ emitted' = <<Ev("warn", t)>> \o ready
                    /\ canEmit' = (canEmit /\ ready = << >>)
                    /\ peers' = ClosePeers(connectorSessions({t}))
                    /\ spsPeers' = spsDeleted(connectorSessions({t}))
                    /\ UNCHANGED <<killed, connected, killEmits>>
    /\ UNCHANGED <<aside, opts, required, started, wantedPeerCount, wantedSpecificID,
                   blacklist, blTimers, nextPeer, peerEmitted>>

\* the application calls kill(error, killPeers)
Kill(killPeers) ==
    /\ killEmits < MaxKillEmits
    /\ KillEffects(trackers, trackers, connState, "null", killPeers)
    /\ emitted' = killEvents("null")
    /\ last' = [op |-> "kill", wasKilled |-> killed,
                connectorsKilled |-> killTargets(trackers)]
    /\ UNCHANGED <<aside, opts, required, started, wantedPeerCount, wantedSpecificID,
                   trackers, canEmit, blacklist, blTimers, nextPeer, peerEmitted>>

(***************************************************************************)
(* Candidate Peer Sessions.                                                *)
(***************************************************************************)
\* makePeer of a connector: a new session for the remote id.  st is "idle"
\* until a handshake is fed to it; sps is the SpsConnector that made it (0 for a
\* TrackerConnector)
NewPeer(id, st, sps) ==
    /\ nextPeer < MaxSessions
    /\ nextPeer' = nextPeer + 1
    /\ peers' = [peers EXCEPT ![nextPeer + 1] = [st |-> st, id |-> id, sps |-> sps]]

\* TrackerConnector.onMessage: an offer or an answer from peer_id = id
TrackerOnMessage(t, id) ==
    /\ ~isNativeServer(t)
    /\ connState[t] # "none"
    /\ emitted' = <<Ev("peer-seen", id)>>
    /\ last' = [op |-> "sighting", blocked |-> shouldBlockConnection(id),
                made |-> ~shouldBlockConnection(id)]
    /\ IF shouldBlockConnection(id)
       THEN UNCHANGED <<peers, nextPeer>>
       ELSE NewPeer(id, "handshaking", 0)
    /\ UNCHANGED <<aside, opts, required, started, wantedPeerCount, wantedSpecificID,
                   killed, trackers, connState, canEmit, connected, blacklist,
                   blTimers, spsPeers, peerEmitted, killEmits>>

\* SpsConnector.sendHandshake: JOIN(id) makes a session, registers it under id
\* and starts the handshake as initiator.  The gate is not called; `blocked`
\* records what it would answer for id.
SpsSendHandshake(t, id) ==
    /\ isNativeServer(t)
    /\ connState[t] # "none"
    /\ emitted' = << >>
    /\ last' = [op |-> "join", blocked |-> shouldBlockConnection(id), made |-> TRUE]
    /\ NewPeer(id, "handshaking", t)
    /\ spsPeers' = [spsPeers EXCEPT ![t] = MapPut(@, id, nextPeer + 1)]
    /\ UNCHANGED <<aside, opts, required, started, wantedPeerCount, wantedSpecificID,
                   killed, trackers, connState, canEmit, connected, blacklist,
                   blTimers, peerEmitted, killEmits>>

\* SpsConnector.handleHandshake: MSG from id.  getOrMakePeer finds the session
\* registered under id or makes one; then the gate is asked, and the handshake
\* is fed to the session only when the gate admits id.
SpsHandleHandshake(t, id) ==
    /\ isNativeServer(t)
    /\ connState[t] # "none"
    /\ emitted' = <<Ev("peer-seen", id)>>
    /\ LET found == id \in DOMAIN spsPeers[t]
           blocked == shouldBlockConnection(id)
       IN
       /\ last' = [op |-> "sighting", blocked |-> blocked, made |-> ~found]
       /\ IF found
          THEN /\ peers' = [peers EXCEPT ![spsPeers[t][id]].st =
                               IF blocked THEN @ ELSE "handshaking"]
               /\ UNCHANGED <<nextPeer, spsPeers>>
          ELSE /\ NewPeer(id, IF blocked THEN "idle" ELSE "handshaking", t)
               /\ spsPeers' = [spsPeers EXCEPT ![t] = MapPut(@, id, nextPeer + 1)]
    /\ UNCHANGED <<aside, opts, required, started, wantedPeerCount, wantedSpecificID,
                   killed, trackers, connState, canEmit, connected, blacklist,
                   blTimers, peerEmitted, killEmits>>

\* a session that never connects: closed by its connector's timeoutTracker or
\* by the remote
HandshakeFails(s) ==
    /\ peers[s].st \in {"idle", "handshaking"}
    /\ peers' = ClosePeers(closedWith({s}))
    /\ spsPeers' = spsDeleted({s})
    /\ emitted' = << >>
    /\ last' = [op |-> "handshakeFails"]
    /\ UNCHANGED <<aside, opts, required, started, wantedPeerCount, wantedSpecificID,
                   killed, trackers, connState, canEmit, connected, blacklist,
                   blTimers, nextPeer, peerEmitted, killEmits>>

\* onPeer without the test for a session already held under the id
onPeerRejects_CapOnly(conn, id) == Cardinality(DOMAIN conn) >= wantedPeerCount

\* onPeer without the test of the peer count
onPeerRejects_NoCap(conn, id) == id \in DOMAIN conn

\* Switchboard.onPeer, first statement: is the candidate closed at once?
onPeerRejects(conn, id) ==
    id \in DOMAIN conn \/ Cardinality(DOMAIN conn) >= wantedPeerCount

\* Switchboard.onPeer: the map after the candidate was accepted
onPeerRegister(conn, id, s) == MapPut(conn, id, s)

\* the permanent `close` handler of onPeer: delete connected[peer.id]
onClose(conn, id) == MapDel(conn, id)

\* the session connects: the once('connect') handler of its connector (an
\* SpsConnector deletes the entry of its table under the id) emits `peer` and
\* onPeer(peer) runs.  hasLocalSdp: peer.localSdp is set.
PeerConnect(s, hasLocalSdp) ==
    /\ peers[s].st = "handshaking"
    /\ spsPeers' = spsDeleted({s})
    /\ LET id == peers[s].id IN
       /\ last' = [op |-> "onPeer", s |-> s,
                   holder |-> IF id \in DOMAIN connected THEN connected[id] ELSE 0,
                   full |-> Cardinality(DOMAIN connected) >= wantedPeerCount]
       /\ IF onPeerRejects(connected, id)
          THEN /\ peers' = [peers EXCEPT ![s] = ClosedPeer]   \* peer.close(true)
               /\ emitted' = << >>
               /\ UNCHANGED connected
          ELSE IF ~hasLocalSdp
          THEN \* warn, peer.fatalError(): `error`, then close() and its handler
               /\ peers' = [peers EXCEPT ![s] = ClosedPeer]
               /\ emitted' = <<Ev("warn", s), Ev("peer-error", s)>>
               /\ connected' = onClose(onPeerRegister(connected, id, s), id)
          ELSE /\ peers' = [peers EXCEPT ![s].st = "pending"]
               /\ emitted' = << >>
               /\ connected' = onPeerRegister(connected, id, s)
    /\ UNCHANGED <<aside, opts, required, started, wantedPeerCount, wantedSpecificID,
                   killed, trackers, connState, canEmit, blacklist, blTimers,
                   nextPeer, peerEmitted, killEmits>>

\* the once('data') handler of onPeer: does the first message authenticate?
\* stable: peer.isSignalStable && peer.localSdp
dataAccepted(id, pkt, remoteSdp, stable) ==
    /\ stable
    /\ remoteSdp # 0
    /\ verifyPacket(id, pkt, wantedSpecificID, remoteSdp)

\* what the handler throws when the first message is not accepted
dataError(remoteSdp, stable) ==
    IF stable /\ remoteSdp # 0 THEN "ClientAuth" ELSE "Error"

\* the remote peer named id sent the packet it made over the SDP it holds,
\* and this side holds another remote SDP
sdpSubstituted(id, pkt, remoteSdp, stable) ==
    /\ stable
    /\ remoteSdp # 0
    /\ id = Substr(makeFullID(pkt.pub), Len(id))
    /\ \E x \in SDPs \ {remoteSdp} : pkt = makeSigPacket(pkt.pub, x)

\* the first message on the default channel of a registered candidate
FirstData(s, pkt, remoteSdp, stable) ==
    /\ peers[s].st = "pending"
    /\ LET id == peers[s].id
           ok == dataAccepted(id, pkt, remoteSdp, stable)
           f == addPeerFailure(blacklist, blTimers, id, 1)
       IN
       /\ last' = [op |-> "data", s |-> s,
                   substituted |-> sdpSubstituted(id, pkt, remoteSdp, stable)]
       /\ IF ok
          THEN /\ blacklist' = MapDel(blacklist, id)
               /\ emitted' = <<Ev("peer", s)>>
               /\ peerEmitted' = peerEmitted \cup {s}
               /\ peers' = [peers EXCEPT ![s] = [st |-> "authed", id |-> id,
                                                  sps |-> peers[s].sps,
                                                  pkt |-> pkt, remoteSdp |-> remoteSdp]]
               /\ UNCHANGED <<blTimers, connected, spsPeers>>
          ELSE /\ blacklist' = f.bl
               /\ blTimers' = f.tm
               /\ emitted' = <<Ev("warn", dataError(remoteSdp, stable))>> \o f.ev
               /\ peers' = ClosePeers(closedWith({s}))
               /\ spsPeers' = spsDeleted({s})
               /\ connected' = onClose(connected, id)
               /\ UNCHANGED peerEmitted
    /\ UNCHANGED <<aside, opts, required, started, wantedPeerCount, wantedSpecificID,
                   killed, trackers, connState, canEmit, nextPeer, killEmits>>

\* peer.timeoutTracker fires: addPeerFailure(peer, 1), peer.close()
ClientTimeout(s) ==
    /\ peers[s].st = "pending"
    /\ LET id == peers[s].id
           f == addPeerFailure(blacklist, blTimers, id, 1)
       IN
       /\ blacklist' = f.bl
       /\ blTimers' = f.tm
       /\ emitted' = f.ev
       /\ connected' = onClose(connected, id)
       /\ last' = [op |-> "timeout", s |-> s]
    /\ peers' = ClosePeers(closedWith({s}))
    /\ spsPeers' = spsDeleted({s})
    /\ UNCHANGED <<aside, opts, required, started, wantedPeerCount, wantedSpecificID,
                   killed, trackers, connState, canEmit, nextPeer, peerEmitted, killEmits>>

\* a registered session closes (the remote end, or the application)
PeerClose(s) ==
    /\ peers[s].st \in {"pending", "authed"}
    /\ connected' = onClose(connected, peers[s].id)
    /\ peers' = ClosePeers(closedWith({s}))
    /\ spsPeers' = spsDeleted({s})
    /\ emitted' = << >>
    /\ last' = [op |-> "close"]
    /\ UNCHANGED <<aside, opts, required, started, wantedPeerCount, wantedSpecificID,
                   killed, trackers, connState, canEmit, blacklist, blTimers,
                   nextPeer, peerEmitted, killEmits>>

\* the application calls addPeerFailure(peer, increment) on a peer it was given
UserAddPeerFailure(s, increment) ==
    /\ peers[s].st = "authed"
    /\ LET f == addPeerFailure(blacklist, blTimers, peers[s].id, increment) IN
       /\ blacklist' = f.bl
       /\ blTimers' = f.tm
       /\ emitted' = f.ev
    /\ last' = [op |-> "addPeerFailure", s |-> s, increment |-> increment]
    /\ UNCHANGED <<aside, opts, required, started, wantedPeerCount, wantedSpecificID,
                   killed, trackers, connState, canEmit, connected, peers,
                   spsPeers, nextPeer, peerEmitted, killEmits>>

\* a blacklist timer of addPeerFailure fires: delete blacklist[peer.id]
BlacklistExpire(tm) ==
    /\ tm \in blTimers
    /\ tm.rem = 0
    /\ blTimers' = blTimers \ {tm}
    /\ blacklist' = MapDel(blacklist, tm.id)
    /\ emitted' = << >>
    /\ last' = [op |-> "expire", id |-> tm.id]
    /\ UNCHANGED <<aside, opts, required, started, wantedPeerCount, wantedSpecificID,
                   killed, trackers, connState, canEmit, connected, peers,
                   spsPeers, nextPeer, peerEmitted, killEmits>>

\* one clock tick passes; a due timer fires before the clock moves on
Tick ==
    /\ blTimers # {}
    /\ \A tm \in blTimers : tm.rem > 0
    /\ blTimers' = {[id |-> tm.id, rem |-> tm.rem - 1] : tm \in blTimers}
    /\ emitted' = << >>
    /\ last' = [op |-> "tick"]
    /\ UNCHANGED <<aside, opts, required, started, wantedPeerCount, wantedSpecificID,
                   killed, trackers, connState, canEmit, connected, blacklist,
                   peers, spsPeers, nextPeer, peerEmitted, killEmits>>

StartAny ==
    \/ \E mode \in {"HOST", "SWARM"}, maxPeers \in MaxPeersChoices :
          Start(mode, maxPeers, NoId)
    \/ \E hostID \in HostIdChoices : Start("JOIN_HOST", 0, hostID)

(***************************************************************************)
(* Spec: a Switchboard with the default options and the candidate         *)
(* sessions its connectors deliver.  A connector may relay a sighting      *)
(* whenever it exists (its socket state is not consulted), so the          *)
(* connectors' own life cycle is left to SpecConnectors.                   *)
(***************************************************************************)
Next ==
    \/ StartAny
    \/ \E t \in Connectors, id \in TrackerIds : TrackerOnMessage(t, id)
    \/ \E t \in Connectors, id \in SpsJoinIds : SpsSendHandshake(t, id)
    \/ \E t \in Connectors, id \in SpsMsgIds : SpsHandleHandshake(t, id)
    \/ \E s \in Sessions : HandshakeFails(s)
    \/ \E s \in Sessions, hasLocalSdp \in BOOLEAN : PeerConnect(s, hasLocalSdp)
    \/ \E s \in Sessions, pkt \in Packets, remoteSdp \in SDPs \cup {0},
          stable \in BOOLEAN : FirstData(s, pkt, remoteSdp, stable)
    \/ \E s \in Sessions : ClientTimeout(s)
    \/ \E s \in Sessions : PeerClose(s)

Spec == Init /\ [][Next]_vars

(***************************************************************************)
(* Claims about authentication (under Spec).                               *)
(***************************************************************************)
\* the sessions a step hands to the application
Surfaced == peerEmitted' \ peerEmitted

\* C1: a `peer` event is emitted for a session only by the handler of its
\* first inbound message, and only when that message is an auth packet whose
\* public key hashes to an id that starts with the id the session was
\* announced under (and with wantedSpecificID when one is set) and whose
\* signature verifies under that key over pub || sdpHash.  A session whose
\* first message fails is closed, and a closed session is never surfaced.
C1_Step ==
    /\ \A i \in DOMAIN emitted' :
          emitted'[i].ev = "peer" => emitted'[i].arg \in Surfaced
    /\ \A s \in Sessions :
          /\ s \in Surfaced =>
                /\ peers[s].st = "pending"
                /\ peers'[s].st = "authed"
                /\ LET id == peers[s].id
                       pkt == peers'[s].pkt
                       full == makeFullID(pkt.pub)
                   IN  /\ id # NoId
                       /\ Substr(full, Len(id)) = id
                       /\ wantedSpecificID # NoId =>
                             Substr(full, Len(wantedSpecificID)) = wantedSpecificID
                       /\ NaclVerify(<<pkt.pub, pkt.sdp>>, pkt.sig, pkt.pub)
          /\ (peers[s].st = "pending" /\ peers'[s].st # "pending"
                  /\ s \notin Surfaced) => peers'[s].st = "closed"
          /\ peers[s].st = "closed" => peers'[s].st = "closed"

\* C1, over every step: `peer` is emitted only by an accepted first message
C1_PeerOnlyAfterAuth == [][C1_Step]_vars

\* one session was surfaced and the first message of another has just failed
C1_Witness ==
    /\ last.op = "data"
    /\ peers[last.s].st = "closed"
    /\ \E s \in peerEmitted : peers[s].st = "authed"

\* C2: the auth packet of every surfaced session carries the hexadecimal SHA-1
\* of the remote SDP this side observed; when the rendezvous substituted the
\* SDP (the remote's own packet arrives, signed over another SDP's hash) the
\* handler warns with a ClientAuth error and the session is closed and never
\* surfaced.
C2_SdpBound ==
    /\ \A s \in Sessions :
          peers[s].st = "authed" =>
              /\ peers[s].remoteSdp \in SDPs
              /\ peers[s].pkt.sdp = Sha1Sdp(peers[s].remoteSdp)
    /\ \A s \in peerEmitted : peers[s].st \in {"authed", "closed"}
    /\ (last.op = "data" /\ last.substituted) =>
          /\ peers[last.s].st = "closed"
          /\ last.s \notin peerEmitted
          /\ emitted # << >>
          /\ emitted[1] = Ev("warn", "ClientAuth")

\* the remote's own packet has just been refused because this side holds
\* another remote SDP
C2_Witness ==
    /\ last.op = "data"
    /\ last.substituted
    /\ peers[last.s].st = "closed"
    /\ last.s \notin peerEmitted

(***************************************************************************)
(* Claims about the `connected` map (under Spec).                          *)
(***************************************************************************)
\* the remote identity an id stands for: its first SHORT_ID_LENGTH characters
ShortIdOf(id) == Substr(id, SHORT_ID_LENGTH)

\* C3: `connected` holds at most one session per remote peer identity
\* (ShortID), whichever connectors delivered the candidates.
C3_OneSessionPerIdentity ==
    \A a, b \in DOMAIN connected : ShortIdOf(a) = ShortIdOf(b) => a = b

\* C4: when a candidate arrives for an id under which `connected` already
\* holds a session, the first session keeps its place and the later one is
\* closed at once: nothing is emitted, it is not authenticated, not surfaced
\* and does not replace the first.
C4_FirstWins ==
    (last.op = "onPeer" /\ last.holder # 0) =>
        /\ peers[last.s] = ClosedPeer
        /\ last.s \notin peerEmitted
        /\ emitted = << >>
        /\ peers[last.holder].st \in {"pending", "authed"}
        /\ peers[last.holder].id \in DOMAIN connected
        /\ connected[peers[last.holder].id] = last.holder
        /\ \A id \in DOMAIN connected : connected[id] # last.s

\* a second candidate for an id already held has just been closed
C4_Witness ==
    /\ last.op = "onPeer"
    /\ last.holder # 0
    /\ last.holder # last.s
    /\ peers[last.s] = ClosedPeer
    /\ peers[last.holder].st = "pending"

\* C5: after host(), swarm() or findHost() the number of sessions in
\* `connected` never exceeds wantedPeerCount (maxPeers, 500 when it is not
\* given, 1 for findHost), and a candidate that arrives when the map is full
\* is closed without being registered.
C5_PeerCap ==
    /\ started => Cardinality(DOMAIN connected) <= wantedPeerCount
    /\ last.op = "start" =>
          wantedPeerCount =
              IF last.mode = "JOIN_HOST" THEN 1
              ELSE IF last.maxPeers = 0 THEN 500 ELSE last.maxPeers
    /\ (last.op = "onPeer" /\ last.full) =>
          /\ peers[last.s] = ClosedPeer
          /\ \A id \in DOMAIN connected : connected[id] # last.s

\* a candidate for a new id has just been closed because `connected` held
\* maxPeers = 2 sessions
C5_Witness ==
    /\ last.op = "onPeer"
    /\ last.full
    /\ last.holder = 0
    /\ peers[last.s] = ClosedPeer
    /\ wantedPeerCount = 2
    /\ Cardinality(DOMAIN connected) = 2

\* C14: a connector asks the gate before it spends resources: no inbound
\* offer, answer, JOIN or MSG makes a connector construct or register a
\* session for a remote id for which the gate returns true.
C14_GateBeforeSession ==
    (last.op \in {"sighting", "join"} /\ last.blocked) => ~last.made

(***************************************************************************)
(* SpecConnectors: the supervisor and the life cycle of its connectors.    *)
(***************************************************************************)
NextConnectors ==
    \/ StartAny
    \/ \E t \in Connectors : ConnectorConnect(t)
    \/ \E t \in Connectors : ConnectorDisconnect(t)
    \/ \E t \in Connectors : ConnectorKill(t)
    \/ \E killPeers \in BOOLEAN : Kill(killPeers)

SpecConnectors == InitConnectors /\ [][NextConnectors]_vars

C7_KillOnce ==
    /\ killEmits <= 1
    /\ (last.op = "kill" /\ last.wasKilled) =>
          /\ emitted = << >>
          /\ last.connectorsKilled = {}


(***************************************************************************)
(* SpecBlacklist: a Switchboard with blacklisting enabled, hosting.  The   *)
(* connectors relay sightings of one remote peer (its ShortID from the     *)
(* tracker, its FullID from the SPS server), and a first message is the    *)
(* auth packet of that peer or of another key, over the SDP this side      *)
(* holds.                                                                  *)
(***************************************************************************)
\* SBClientOptions with blacklisting on (clientMaxRetries 0 = not given)
BlacklistOpts == [clientMaxRetries : {0, 1},
                  clientBlacklistDuration : {BlacklistTicks, Infinity}]

InitBlacklist ==
    /\ opts \in BlacklistOpts
    /\ required = {}
    /\ Fresh
    /\ connector = NoConn
    /\ instances = NoInstances
    /\ session = NoSession
    /\ link = NoLink
    /\ offers = NoOffers
    /\ BesideIdle

NextBlacklist ==
    \/ Start("HOST", 0, NoId)
    \/ \E t \in Connectors : TrackerOnMessage(t, makeID(1))
    \/ \E t \in Connectors : SpsSendHandshake(t, makeFullID(1))
    \/ \E t \in Connectors : SpsHandleHandshake(t, makeFullID(1))
    \/ \E s \in Sessions : HandshakeFails(s)
    \/ \E s \in Sessions : PeerConnect(s, TRUE)
    \/ \E s \in Sessions, k \in Keys : FirstData(s, makeSigPacket(k, 1), 1, TRUE)
    \/ \E s \in Sessions : ClientTimeout(s)
    \/ \E s \in Sessions : PeerClose(s)
    \/ \E s \in Sessions, increment \in {0, 1} : UserAddPeerFailure(s, increment)
    \/ \E id \in PeerIds : BlacklistExpire([id |-> id, rem |-> 0])
    \/ Tick

SpecBlacklist == InitBlacklist /\ [][NextBlacklist]_vars

\* C10: with a finite clientBlacklistDuration, once failures have pushed an
\* id's count above clientMaxRetries, `peer-blacklisted` is emitted (once, by
\* the call that crosses the limit), isBlackListed(id) stays true until the
\* duration has elapsed, and is false once the timer has fired.
C10_BlacklistedForDuration ==
    /\ \A tm \in blTimers : tm.rem > 0 => isBlackListed(tm.id)
    /\ last.op = "expire" => ~isBlackListed(last.id)
    /\ \A i \in DOMAIN emitted :
          emitted[i].ev = "peer-blacklisted" =>
              /\ isBlackListed(emitted[i].arg)
              /\ [id |-> emitted[i].arg, rem |-> opts.clientBlacklistDuration]
                     \in blTimers
              /\ \A j \in DOMAIN emitted :
                    emitted[j].ev = "peer-blacklisted" => j = i

\* C11: with clientBlacklistDuration = Infinity an id that is blacklisted
\* stays blacklisted over every later step (timers, authentications of
\* sessions in flight, further failures).
C11_Step ==
    opts.clientBlacklistDuration = Infinity =>
        \A id \in PeerIds : isBlackListed(id) => isBlackListed(id)'

\* C11, over every step: a permanent blacklist entry is never lifted
C11_PermanentBlacklist == [][C11_Step]_vars

\* C12: addPeerFailure(peer) without an increment blacklists the peer at
\* once, for every clientMaxRetries and every prior failure count.
C12_InstantBlacklist ==
    (last.op = "addPeerFailure" /\ last.increment = 0) =>
        isBlackListed(peers[last.s].id)

(***************************************************************************)
(* SpecGate: the admission gate.  A Switchboard with clientMaxRetries = 1  *)
(* and a permanent blacklist hosts, swarms or looks for a host; trackers   *)
(* and SPS servers relay sightings of the remote peers, sessions connect,  *)
(* authenticate, time out and close, and the application reports failures. *)
(***************************************************************************)
GateOpts == [clientMaxRetries |-> 1, clientBlacklistDuration |-> Infinity]

InitGate ==
    /\ opts = GateOpts
    /\ required = {}
    /\ Fresh
    /\ connector = NoConn
    /\ instances = NoInstances
    /\ session = NoSession
    /\ link = NoLink
    /\ offers = NoOffers
    /\ BesideIdle

NextGate ==
    \/ StartAny
    \/ \E t \in Connectors, id \in TrackerIds : TrackerOnMessage(t, id)
    \/ \E t \in Connectors, id \in SpsMsgIds : SpsHandleHandshake(t, id)
    \/ \E s \in Sessions : PeerConnect(s, TRUE)
    \/ \E s \in Sessions, k \in Keys : FirstData(s, makeSigPacket(k, 1), 1, TRUE)
    \/ \E s \in Sessions : ClientTimeout(s)
    \/ \E s \in Sessions : PeerClose(s)
    \/ \E s \in Sessions : UserAddPeerFailure(s, 0)

SpecGate == InitGate /\ [][NextGate]_vars

\* peerID and wantedSpecificID differ within their first
\* min(|peerID|, |wantedSpecificID|) characters
PrefixDiffers(peerID) ==
    \E i \in 1..Min(Len(peerID), Len(wantedSpecificID)) :
        peerID[i] # wantedSpecificID[i]

\* C13: the gate returns true exactly when the id is blacklisted, or
\* wantedSpecificID is set and differs from the id within the shorter of the
\* two lengths, or `connected` has an entry for the id, or the blacklist has
\* at least wantedPeerCount entries; after findHost of a 4-character prefix,
\* with nothing blacklisted or connected, an id that starts with the prefix is
\* admitted and one that does not is rejected.
C13_Gate ==
    last.op = "sighting" =>
        LET id == emitted[1].arg IN
        /\ last.blocked <=>
              \/ isBlackListed(id)
              \/ (wantedSpecificID # NoId /\ PrefixDiffers(id))
              \/ id \in DOMAIN connected
              \/ Cardinality(DOMAIN blacklist) >= wantedPeerCount
        /\ (/\ wantedSpecificID = Substr(makeFullID(1), 4)
            /\ blacklist = EmptyMap
            /\ connected = EmptyMap) =>
              (last.blocked <=> Substr(id, 4) # wantedSpecificID)

\* after findHost an id that matches the wanted prefix, is not blacklisted and
\* has no session has just been rejected because the blacklist holds
\* wantedPeerCount = 1 entries
C13_Witness ==
    /\ last.op = "sighting"
    /\ last.blocked
    /\ wantedSpecificID # NoId
    /\ ~PrefixDiffers(emitted[1].arg)
    /\ ~isBlackListed(emitted[1].arg)
    /\ emitted[1].arg \notin DOMAIN connected
    /\ Cardinality(DOMAIN blacklist) = 1
    /\ wantedPeerCount = 1

(***************************************************************************)
(* One connector seen from inside (src/src/tracker.ts,                     *)
(* src/src/sps-connector.ts): its WebSockets, its reconnect timers and     *)
(* kill().  `connector` holds                                              *)
(*   kind             "tracker" or "sps"                                   *)
(*   sock             this.sock: "none", "connecting", "open", "closing"   *)
(*                    (closed or failed, its close event still to come)    *)
(*                    or "closed"                                          *)
(*   oldSocks         replaced sockets whose close event is still to come  *)
(*   attempts         SPS: openConnection() promises in flight, by origin  *)
(*   shouldReconnect, didConnect, tries (connectTries / retries)           *)
(*   timers           pending reconnect timers                             *)
(*   delay            the delay of the reconnect timer set last (ms)       *)
(*   everConnected    a socket of the connector has opened at some time    *)
(*   killed           kill() has been called                               *)
(*   newAfterKill     a WebSocket was created or attached after kill()     *)
(* Timers fire and sockets open, fail and close in any order.              *)
(***************************************************************************)
TrackerFresh ==
    [kind |-> "tracker", sock |-> "none", oldSocks |-> 0,
     attempts |-> [first |-> 0, retry |-> 0],
     shouldReconnect |-> TRUE, didConnect |-> FALSE, tries |-> 0,
     timers |-> 0, killed |-> FALSE, newAfterKill |-> FALSE,
     delay |-> 0, everConnected |-> FALSE]

SpsFresh == [TrackerFresh EXCEPT !.kind = "sps"]

InitSockets ==
    /\ opts = DefaultOpts
    /\ required = {}
    /\ Fresh
    /\ connector \in {TrackerFresh, SpsFresh}
    /\ instances = NoInstances
    /\ session = NoSession
    /\ link = NoLink
    /\ offers = NoOffers
    /\ BesideIdle

\* what every connector step leaves alone
SupervisorUnchanged ==
    UNCHANGED <<opts, required, started, wantedPeerCount, wantedSpecificID,
                killed, trackers, connState, canEmit, connected, blacklist,
                blTimers, peers, spsPeers, nextPeer, peerEmitted, killEmits>>

\* a step of the connector: its new state, the events it emits, its name
ConnStep(c, evs, op) ==
    /\ connector' = c
    /\ emitted' = evs
    /\ last' = [op |-> op]
    /\ SupervisorUnchanged
    /\ UNCHANGED <<instances, session, link, offers, beside>>

\* WebSocket.close(): a socket that is connecting or open starts closing
SockClose(sock) == IF sock \in {"connecting", "open"} THEN "closing" ELSE sock

---------------------------------------------------------------------------
\* TrackerConnector.reconnect
TrackerReconnect(c) ==
    IF ~c.shouldReconnect THEN c
    ELSE [c EXCEPT !.tries = Min(MAX_CONNECT_TRIES, c.tries + 1),
                   !.timers = c.timers + 1,
                   !.delay = Min(MAX_CONNECT_TRIES, c.tries + 1) * RECONNECT_UNIT]

\* TrackerConnector.close
TrackerClose(c) == [c EXCEPT !.sock = SockClose(c.sock)]

\* TrackerConnector.kill
TrackerKilled(c) ==
    [TrackerClose(c) EXCEPT !.shouldReconnect = FALSE, !.killed = TRUE]

\* TrackerConnector.connect: this.sock = new WebSocket(url); the socket it
\* replaces keeps its handlers
TrackerConnected(c) ==
    [c EXCEPT !.sock = "connecting",
              !.oldSocks = c.oldSocks + (IF c.sock = "closing" THEN 1 ELSE 0),
              !.newAfterKill = c.newAfterKill \/ c.killed]

\* the supervisor's start() calls connect()
TrackerConnect ==
    /\ connector.kind = "tracker"
    /\ connector.sock = "none"
    /\ ConnStep(TrackerConnected(connector), << >>, "connect")

\* sock.onopen: onConnect
TrackerOnConnect ==
    /\ connector.kind = "tracker"
    /\ connector.sock = "connecting"
    /\ ConnStep([connector EXCEPT !.sock = "open", !.didConnect = TRUE,
                                   !.everConnected = TRUE],
                <<Ev("connect", 0)>>, "onConnect")

\* sock.onerror: onError; the failed socket's close event follows
TrackerOnError ==
    /\ connector.kind = "tracker"
    /\ connector.sock \in {"connecting", "open"}
    /\ connector.shouldReconnect => connector.timers < MaxTimers
    /\ LET failed == [connector EXCEPT !.sock = "closing"] IN
       IF connector.didConnect
       THEN ConnStep(TrackerReconnect([failed EXCEPT !.didConnect = FALSE]),
                     << >>, "onError")
       ELSE ConnStep(TrackerKilled(failed),
                     <<Ev("disconnect", 0), Ev("kill", "ConnectionFailed")>>,
                     "onError")

\* sock.onclose of the current socket (closed by the server, or closing)
TrackerOnClose ==
    /\ connector.kind = "tracker"
    /\ connector.sock \in {"open", "closing"}
    /\ connector.shouldReconnect => connector.timers < MaxTimers
    /\ ConnStep(TrackerReconnect([connector EXCEPT !.sock = "closed"]),
                << >>, "onClose")

\* sock.onclose of a socket that was replaced
TrackerOnOldClose ==
    /\ connector.kind = "tracker"
    /\ connector.oldSocks > 0
    /\ connector.shouldReconnect => connector.timers < MaxTimers
    /\ ConnStep(TrackerReconnect([connector EXCEPT !.oldSocks = @ - 1]),
                << >>, "onOldClose")

\* a reconnect timer fires: this.close(); this.connect()
TrackerTimer ==
    /\ connector.kind = "tracker"
    /\ connector.timers > 0
    /\ connector.oldSocks < MaxOldSocks
    /\ ConnStep(TrackerConnected(TrackerClose([connector EXCEPT !.timers = @ - 1])),
                <<Ev("disconnect", 0)>>, "timer")

\* kill() is called on the connector
TrackerKill ==
    /\ connector.kind = "tracker"
    /\ connector.sock # "none"
    /\ ConnStep(TrackerKilled(connector),
                <<Ev("disconnect", 0), Ev("kill", "null")>>, "kill")

---------------------------------------------------------------------------
\* SpsConnector.kill: the new state and the events
SpsKilled(c) ==
    [c EXCEPT !.shouldReconnect = FALSE, !.sock = SockClose(c.sock),
              !.killed = TRUE]

\* SpsConnector.reconnect: the new state and the events it emits
SpsReconnect(c) ==
    IF ~c.shouldReconnect \/ ~c.didConnect
    THEN [c |-> SpsKilled(c), ev |-> <<Ev("kill", "Cannot establish connection.")>>]
    ELSE [c |-> [c EXCEPT !.timers = c.timers + 1,
                          !.delay = Min(5, c.tries) * RECONNECT_UNIT],
          ev |-> << >>]

\* SpsConnector.openConnection: new WebSocket(uri), not attached yet
SpsOpenConnection(c, origin) ==
    [c EXCEPT !.attempts[origin] = @ + 1,
              !.newAfterKill = c.newAfterKill \/ c.killed]

\* SpsConnector.attachSock
SpsAttachSock(c) ==
    [c EXCEPT !.didConnect = TRUE, !.tries = 0, !.sock = "open",
              !.everConnected = TRUE,
              !.newAfterKill = c.newAfterKill \/ c.killed]

\* the supervisor's start() calls connect()
SpsConnect ==
    /\ connector.kind = "sps"
    /\ connector.sock = "none"
    /\ connector.attempts.first = 0
    /\ ~connector.didConnect
    /\ ~connector.killed
    /\ ConnStep(SpsOpenConnection(connector, "first"), << >>, "connect")

\* ws.onopen of an attempt: the promise resolves and attachSock(ws) runs
SpsOpened(origin) ==
    /\ connector.kind = "sps"
    /\ connector.attempts[origin] > 0
    /\ ConnStep(SpsAttachSock([connector EXCEPT !.attempts[origin] = @ - 1]),
                <<Ev("connect", 0)>>, "opened")

\* ws.onerror / ws.onclose of an attempt: the promise rejects.  connect() has
\* no catch; reconnect() catches and calls reconnect() again.
SpsOpenFailed(origin) ==
    /\ connector.kind = "sps"
    /\ connector.attempts[origin] > 0
    /\ connector.shouldReconnect /\ connector.didConnect =>
          connector.timers < MaxTimers
    /\ LET c == [connector EXCEPT !.attempts[origin] = @ - 1]
           r == SpsReconnect(c)
       IN  IF origin = "first" THEN ConnStep(c, << >>, "openFailed")
           ELSE ConnStep(r.c, r.ev, "openFailed")

\* ws.onclose of the attached socket (closed by the server, or closing)
SpsOnClose ==
    /\ connector.kind = "sps"
    /\ connector.sock \in {"open", "closing"}
    /\ connector.shouldReconnect /\ connector.didConnect =>
          connector.timers < MaxTimers
    /\ LET r == SpsReconnect([connector EXCEPT !.sock = "closed"]) IN
       ConnStep(r.c,
                (IF connector.didConnect THEN <<Ev("disconnect", 0)>> ELSE << >>)
                    \o r.ev,
                "onClose")

\* a reconnect timer fires
SpsTimer ==
    /\ connector.kind = "sps"
    /\ connector.timers > 0
    /\ LET c == [connector EXCEPT !.timers = @ - 1, !.tries = @ + 1] IN
       IF c.tries > MaxReconnects
       THEN ConnStep(SpsKilled(c),
                     <<Ev("kill", "Reached maximum allowed reconnect retries.")>>,
                     "timer")
       ELSE IF ~c.shouldReconnect
       THEN ConnStep(SpsKilled(c),
                     <<Ev("kill", "Cannot establish connection.")>>, "timer")
       ELSE ConnStep(SpsOpenConnection(c, "retry"), << >>, "timer")

\* kill() is called on the connector (by the supervisor, or on 'dc')
SpsKill ==
    /\ connector.kind = "sps"
    /\ connector.sock # "none" \/ connector.attempts.first > 0
          \/ connector.didConnect
    /\ ConnStep(SpsKilled(connector), <<Ev("kill", "null")>>, "kill")

NextSockets ==
    \/ TrackerConnect
    \/ TrackerOnConnect
    \/ TrackerOnError
    \/ TrackerOnClose
    \/ TrackerOnOldClose
    \/ TrackerTimer
    \/ TrackerKill
    \/ SpsConnect
    \/ \E origin \in {"first", "retry"} : SpsOpened(origin)
    \/ \E origin \in {"first", "retry"} : SpsOpenFailed(origin)
    \/ SpsOnClose
    \/ SpsTimer
    \/ SpsKill

SpecSockets == InitSockets /\ [][NextSockets]_vars

\* C8: once kill() has been called on a connector it creates no WebSocket and
\* attaches none, also when a reconnect timer or a connection attempt was
\* pending when kill() was called.
C8_NoSocketAfterKill == connector.killed => ~connector.newAfterKill

(***************************************************************************)
(* The InfoHash of two Switchboards (Switchboard.start).  A string is a    *)
(* sequence of character codes; realms and swarm IDs are any strings over  *)
(* ':' and 'a'.                                                            *)
(***************************************************************************)
Colon == 58
Alphabet == {Colon, 97}
Strings == UNION {[1..n -> Alphabet] : n \in 0..MaxStrLen}

\* sha1(text): injective, so kept as the text it hashes
Sha1Text(text) == [sha1 |-> text]

\* start(swarmID): sha1(this.realm + '::' + swarmID)
infoHashOf(realm, swarmID) == Sha1Text(realm \o <<Colon, Colon>> \o swarmID)

\* this.infoHash before start()
NotStarted == [sha1 |-> << >>]

\* new Switchboard(realm) twice
InitRealms ==
    /\ opts = DefaultOpts
    /\ required = {}
    /\ Fresh
    /\ connector = NoConn
    /\ instances \in [1..2 -> [realm : Strings, started : {FALSE},
                                infoHash : {NotStarted}]]
    /\ session = NoSession
    /\ link = NoLink
    /\ offers = NoOffers
    /\ BesideIdle

\* instance i calls swarm(swarmID) (or host / findHost with an id)
StartInstance(i, swarmID) ==
    /\ ~instances[i].started
    /\ instances' = [instances EXCEPT
                        ![i].started = TRUE,
                        ![i].infoHash = infoHashOf(instances[i].realm, swarmID)]
    /\ emitted' = << >>
    /\ last' = [op |-> "startInstance", i |-> i, swarmID |-> swarmID]
    /\ SupervisorUnchanged
    /\ UNCHANGED <<connector, session, link, offers, beside>>

NextRealms == \E i \in 1..2, swarmID \in Strings : StartInstance(i, swarmID)

SpecRealms == InitRealms /\ [][NextRealms]_vars

\* C9: two Switchboards constructed with different realms never compute the
\* same InfoHash, whatever the two swarm IDs (user keys) are.
C9_RealmsSeparate ==
    (/\ instances[1].started
     /\ instances[2].started
     /\ instances[1].realm # instances[2].realm)
        => instances[1].infoHash # instances[2].infoHash

(***************************************************************************)
(* One Peer Session seen from inside (src/src/peer.ts): close(),           *)
(* fatalError(), the connection-state handler, the data channels and the   *)
(* send queue.  `session` holds                                            *)
(*   closed, hasConnected   the fields of that name                        *)
(*   conn                   pc.connectionState                             *)
(*   pcCloses               calls of pc.close() so far                     *)
(*   closeEmits             `close` events emitted so far                  *)
(*   chan                   per channel: "connecting", "open", or "closed" *)
(*                          (its close event has deleted it from           *)
(*                          dataChannels)                                  *)
(*   queue                  dataSendQueue                                  *)
(*   written                per channel: the items given to ch.send()      *)
(*   sent, sentTo           send() calls so far and the channel of each    *)
(*   direct                 the items send() wrote itself (channel open)   *)
(* The items are numbered 1, 2, ... in the order of the send() calls.      *)
(***************************************************************************)
META_CHANNEL == "_meta"
ChannelNames == {META_CHANNEL, "default"}

\* pc.connectionState values a connectionstatechange event can report
ConnStates == {"connecting", "connected", "disconnected", "failed", "closed"}

\* new Peer(config): both channels are created by the constructor
PeerFresh ==
    [kind |-> "peer", closed |-> FALSE, hasConnected |-> FALSE, conn |-> "new",
     pcCloses |-> 0, closeEmits |-> 0,
     chan |-> [c \in ChannelNames |-> "connecting"],
     queue |-> [c \in ChannelNames |-> << >>],
     written |-> [c \in ChannelNames |-> << >>],
     sent |-> 0, sentTo |-> << >>, direct |-> {}]

InitSession ==
    /\ opts = DefaultOpts
    /\ required = {}
    /\ Fresh
    /\ connector = NoConn
    /\ instances = NoInstances
    /\ session = PeerFresh
    /\ link = NoLink
    /\ offers = NoOffers
    /\ BesideIdle

\* a handler of the session: its new state, the events it emits, its name
PeerStep(p, evs, op) ==
    /\ session' = p
    /\ emitted' = evs
    /\ last' = op
    /\ SupervisorUnchanged
    /\ UNCHANGED <<connector, instances, link, offers, beside>>

\* close(intentional = true): the default of the parameter
DefaultIntentional == TRUE

\* close() without the test of this.closed
peerClose_NoGuard(p, intentional) ==
    [p |-> [p EXCEPT !.closed = TRUE, !.pcCloses = @ + 1, !.closeEmits = @ + 1],
     ev |-> <<Ev("close", 0)>> \o
            (IF intentional THEN << >> ELSE <<Ev("disconnect", 0)>>)]

\* Peer.close(intentional): the new state and the events emitted
peerClose(p, intentional) ==
    IF p.closed THEN [p |-> p, ev |-> << >>]
    ELSE [p |-> [p EXCEPT !.closed = TRUE, !.pcCloses = @ + 1, !.closeEmits = @ + 1],
          ev |-> <<Ev("close", 0)>> \o
                 (IF intentional THEN << >> ELSE <<Ev("disconnect", 0)>>)]

\* Peer.fatalError(err): emit `error`, then this.close()
peerFatalError(p) ==
    IF p.closed THEN [p |-> p, ev |-> << >>]
    ELSE LET c == peerClose(p, DefaultIntentional) IN
         [p |-> c.p, ev |-> <<Ev("error", 0)>> \o c.ev]

\* the application (or the Switchboard) calls close(intentional)
PeerCloseCall(intentional) ==
    LET r == peerClose(session, intentional) IN
    PeerStep(r.p, r.ev, [op |-> "close", wasClosed |-> session.closed,
                         intentional |-> intentional])

\* fatalError(err) is called from outside (SpsConnector.kill) or by a failed
\* handshake
PeerFatalErrorCall ==
    LET r == peerFatalError(session) IN
    PeerStep(r.p, r.ev, [op |-> "fatalError", wasClosed |-> session.closed])

\* Peer.onConnectionState: connectionstatechange reports the state st
OnConnectionState(st) ==
    /\ st # session.conn
    /\ LET p == [session EXCEPT !.conn = st]
           r == IF st \in {"disconnected", "closed"} THEN peerClose(p, DefaultIntentional)
                ELSE IF st = "failed" THEN peerFatalError(p)
                ELSE [p |-> p, ev |-> << >>]
       IN  PeerStep(r.p, r.ev, [op |-> "connectionState", wasClosed |-> session.closed])

\* is the channel's readyState 'open'?  pc.close() closes every channel
isOpen(p, c) == p.chan[c] = "open" /\ p.pcCloses = 0

\* Peer.send(data, channelName) with the next item
PeerSend(c) ==
    /\ session.sent < MaxItems
    /\ LET item == session.sent + 1
           p == [session EXCEPT !.sent = item, !.sentTo = Append(@, c)]
           r == IF p.chan[c] = "closed" THEN peerFatalError(p)  \* TypeError, caught
                ELSE IF isOpen(p, c)
                THEN [p |-> [p EXCEPT !.written[c] = Append(@, item),
                                      !.direct = @ \cup {item}],
                      ev |-> << >>]
                ELSE [p |-> [p EXCEPT !.queue[c] = Append(@, item)], ev |-> << >>]
       IN  PeerStep(r.p, r.ev, [op |-> "send", wasClosed |-> session.closed])

\* Peer.emitReady
emitReady(p) ==
    [p |-> [p EXCEPT !.hasConnected = TRUE],
     ev |-> <<Ev("ready", 0)>> \o
            (IF p.hasConnected THEN << >> ELSE <<Ev("connect", 0)>>)]

\* the channel fires `open`; its listeners run in the order registerDataChannel
\* added them: emitReady() for _meta and emit('dataChannel') for any other
\* channel, then the listener that flushes dataSendQueue.  n is the number of
\* items the application's `dataChannel` listener passes to send() for this
\* channel.
ChannelOpen(c, n) ==
    /\ session.chan[c] = "connecting"
    /\ session.pcCloses = 0
    /\ session.sent + n <= MaxItems
    /\ c = META_CHANNEL => n = 0
    /\ LET inHandler == [i \in 1..n |-> session.sent + i]
           r == IF c = META_CHANNEL THEN emitReady(session)
                ELSE [p |-> session, ev |-> <<Ev("dataChannel", c)>>]
           p == [r.p EXCEPT !.chan[c] = "open",
                            !.sent = @ + n,
                            !.sentTo = @ \o [i \in 1..n |-> c],
                            !.direct = @ \cup {inHandler[i] : i \in 1..n},
                            !.written[c] = @ \o inHandler \o session.queue[c],
                            !.queue[c] = << >>]
       IN  PeerStep(p, r.ev, [op |-> "channelOpen", wasClosed |-> session.closed])

\* the channel fires `close`: it is deleted from dataChannels, and for _meta
\* fatalError('Core data channel died.') runs
ChannelClose(c) ==
    /\ session.chan[c] # "closed"
    /\ LET p == [session EXCEPT !.chan[c] = "closed"]
           r == IF c = META_CHANNEL THEN peerFatalError(p) ELSE [p |-> p, ev |-> << >>]
       IN  PeerStep(r.p, r.ev, [op |-> "channelClose", wasClosed |-> session.closed])

\* the channel fires `error`: fatalError(err.error)
ChannelError(c) ==
    /\ session.chan[c] # "closed"
    /\ LET r == peerFatalError(session) IN
       PeerStep(r.p, r.ev, [op |-> "channelError", wasClosed |-> session.closed])

NextSession ==
    \/ \E intentional \in BOOLEAN : PeerCloseCall(intentional)
    \/ PeerFatalErrorCall
    \/ \E st \in ConnStates : OnConnectionState(st)
    \/ \E c \in ChannelNames : PeerSend(c)
    \/ \E c \in ChannelNames, n \in 0..1 : ChannelOpen(c, n)
    \/ \E c \in ChannelNames : ChannelClose(c)
    \/ \E c \in ChannelNames : ChannelError(c)

SpecSession == InitSession /\ [][NextSession]_vars

\* C15: a Peer Session emits `close` once over its lifetime and closes the
\* underlying connection once; a close request on a closed session (close(),
\* fatalError(), a connection-state change) emits nothing.
C15_CloseOnce ==
    /\ session.closeEmits <= 1
    /\ session.pcCloses <= 1
    /\ session.closed => (session.closeEmits = 1 /\ session.pcCloses = 1)
    /\ (last.op # "init" /\ last.wasClosed) => emitted = << >>

\* close() has just been called on a session that was already closed by a
\* failed connection
C15_Witness ==
    /\ last.op = "close"
    /\ last.wasClosed
    /\ session.conn = "failed"
    /\ session.closeEmits = 1

\* the session was closed by the last handler
ClosedNow == last.op # "init" /\ ~last.wasClosed /\ session.closed

\* C16: a session that closes for another reason than an intentional local
\* close (a connection state disconnected or closed, or a failure routed
\* through fatalError) emits `disconnect` as well as `close`; an intentional
\* close emits `close` only.
C16_DisconnectUnlessIntentional ==
    /\ (ClosedNow /\ last.op # "close") =>
          \E i \in DOMAIN emitted : emitted[i].ev = "disconnect"
    /\ (ClosedNow /\ last.op = "close" /\ last.intentional) =>
          emitted = <<Ev("close", 0)>>

\* the items passed to send() for channel c, in the order of the calls
SentTo(c) == SelectSeq([i \in 1..session.sent |-> i], LAMBDA i : session.sentTo[i] = c)

\* C18: every item passed to send() while its channel is not open is queued
\* under the channel's name, and when the channel fires `open` the queued
\* items are written once each, in the order sent, before any item sent after
\* the channel opened.
C18_QueueFlushedInOrder ==
    \A c \in ChannelNames :
        /\ session.chan[c] = "connecting" =>
              (session.queue[c] = SentTo(c) /\ session.written[c] = << >>)
        /\ session.chan[c] = "open" =>
              /\ session.written[c] \o session.queue[c] = SentTo(c)
              /\ \A i \in 1..Len(session.queue[c]) :
                    session.queue[c][i] \notin session.direct
              /\ session.pcCloses = 0 => session.queue[c] = << >>

(***************************************************************************)
(* In-band renegotiation between the two ends of an established session    *)
(* (Peer.constructor: onnegotiationneeded, Peer.inBand, Peer.addMedia,     *)
(* Peer.emitReady).  End 1 opened the connection as initiator.  The        *)
(* RTCPeerConnection follows the W3C signaling state machine: an offer may *)
(* be set locally only in `stable`, an answer may be applied only to a     *)
(* pending offer, and when the state returns to `stable` with changes      *)
(* still to negotiate `negotiationneeded` fires again.  For each end,      *)
(* `link.end` holds                                                        *)
(*   meta       readyState of this end's `_meta` channel                   *)
(*   sig        pc.signalingState                                          *)
(*   want       tracks were added that no offer or answer covers yet       *)
(*   offered    the pending local offer covers added tracks                *)
(*   flag       the connection's negotiation-needed flag                   *)
(*   event      a negotiationneeded event is queued                        *)
(*   offering   onnegotiationneeded awaits createOffer()                   *)
(*   answering  inBand awaits createAnswer()                               *)
(*   waiting    addMedia() promises waiting for `ready`                    *)
(*   adds       addMedia() calls so far                                    *)
(*   rejected   a promise of a handler was rejected (InvalidStateError)    *)
(*   errors     `error` was emitted                                        *)
(*   closed     this.closed                                                *)
(* link.wire[e] holds the `_meta` messages on their way to end e, link.junk *)
(* whether an application wrote to `_meta` itself, and link.glared whether  *)
(* an end has rolled its offer back.                                       *)
(***************************************************************************)
Ends == {1, 2}
Other(e) == 3 - e

\* Peer.initiator
isInitiator(e) == e = 1

EndFresh ==
    [meta |-> "connecting", sig |-> "stable", want |-> FALSE, offered |-> FALSE,
     flag |-> FALSE, event |-> FALSE, offering |-> FALSE, answering |-> FALSE,
     waiting |-> 0, adds |-> 0, rejected |-> FALSE, errors |-> FALSE,
     closed |-> FALSE]

LinkFresh ==
    [kind |-> "link", end |-> [e \in Ends |-> EndFresh],
     wire |-> [e \in Ends |-> << >>], junk |-> FALSE, glared |-> FALSE]

InitNegotiation ==
    /\ opts = DefaultOpts
    /\ required = {}
    /\ Fresh
    /\ connector = NoConn
    /\ instances = NoInstances
    /\ session = NoSession
    /\ link = LinkFresh
    /\ offers = NoOffers
    /\ BesideIdle

\* a handler of one end: the new link, the events it emits, its name
LinkStep(l, evs, op) ==
    /\ link' = l
    /\ emitted' = evs
    /\ last' = op
    /\ SupervisorUnchanged
    /\ UNCHANGED <<connector, instances, session, offers, beside>>

\* the messages sendMeta writes
Description(type) == [type |-> type]

\* RTCPeerConnection: the signaling state has become stable, the
\* negotiation-needed flag is updated and the event queued when negotiation
\* is still needed
becameStable(x) == [x EXCEPT !.sig = "stable", !.flag = x.want, !.event = x.want]

\* RTCPeerConnection.addTrack: update the negotiation-needed flag
addTrack(x) ==
    IF x.sig = "stable" /\ ~x.flag
    THEN [x EXCEPT !.want = TRUE, !.flag = TRUE, !.event = TRUE]
    ELSE [x EXCEPT !.want = TRUE]

\* Peer.addMedia: pc.addTrack for every track, then once('ready', res)
AddMedia(e) ==
    LET x == link.end[e] IN
    /\ ~x.closed
    /\ x.adds < MaxAddMedia
    /\ LinkStep([link EXCEPT !.end[e] =
                    [addTrack(x) EXCEPT !.adds = @ + 1, !.waiting = @ + 1]],
                << >>, [op |-> "addMedia", e |-> e])

\* pc.onnegotiationneeded, up to its first await: createOffer() is started
\* when `_meta` is open.  The user agent drops the event when the state is
\* not stable or the flag was cleared.
OnNegotiationNeeded(e) ==
    LET x == link.end[e] IN
    /\ ~x.closed
    /\ x.event
    /\ LinkStep([link EXCEPT !.end[e] =
                    IF x.sig = "stable" /\ x.flag /\ x.meta = "open"
                    THEN [x EXCEPT !.event = FALSE, !.offering = TRUE,
                                   !.offered = TRUE, !.want = FALSE]
                    ELSE [x EXCEPT !.event = FALSE]],
                << >>, [op |-> "negotiationNeeded", e |-> e])

\* pc.onnegotiationneeded, after createOffer(): setLocalDescription(offer),
\* then sendMeta({description}).  setLocalDescription rejects when a remote
\* offer was applied in the meantime.
OfferCreated(e) ==
    LET x == link.end[e] IN
    /\ ~x.closed
    /\ x.offering
    /\ IF x.sig = "stable"
       THEN LinkStep([link EXCEPT
                         !.end[e] = [x EXCEPT !.offering = FALSE,
                                              !.sig = "have-local-offer"],
                         !.wire[Other(e)] = Append(@, Description("offer"))],
                     << >>, [op |-> "offerCreated", e |-> e])
       ELSE LinkStep([link EXCEPT
                         !.end[e] = [x EXCEPT !.offering = FALSE, !.rejected = TRUE,
                                              !.offered = FALSE, !.want = TRUE]],
                     << >>, [op |-> "offerCreated", e |-> e])

\* inBand without the initiator's early return
glareIgnored_Never(initiator) == FALSE

\* Peer.inBand on glare: `if (this.initiator) return`
glareIgnored(initiator) == initiator

\* Peer.inBand, up to createAnswer(): the next `_meta` message of end e
InBand(e) ==
    LET x == link.end[e]
        msg == Head(link.wire[e])
        glare == msg.type = "offer" /\ x.sig # "stable"
        op == [op |-> "inBand", e |-> e, glare |-> glare, sigBefore |-> x.sig]
        rest == [link EXCEPT !.wire[e] = Tail(@)]
    IN
    /\ ~x.closed
    /\ link.wire[e] # << >>
    /\ IF msg.type = "junk"
       THEN \* no description: fatalError
            LinkStep([rest EXCEPT !.end[e] = [x EXCEPT !.errors = TRUE, !.closed = TRUE]],
                     <<Ev("error", e), Ev("close", e)>>, op)
       ELSE IF glare /\ glareIgnored(isInitiator(e))
       THEN LinkStep(rest, << >>, op)
       ELSE IF glare
       THEN \* setLocalDescription({type: "rollback"}), setRemoteDescription(offer)
            LinkStep([rest EXCEPT !.end[e] =
                         [x EXCEPT !.sig = "have-remote-offer", !.answering = TRUE,
                                   !.offered = FALSE, !.want = x.want \/ x.offered],
                      !.glared = TRUE],
                     << >>, op)
       ELSE IF msg.type = "offer"
       THEN LinkStep([rest EXCEPT !.end[e] =
                         [x EXCEPT !.sig = "have-remote-offer", !.answering = TRUE]],
                     << >>, op)
       ELSE IF x.sig = "have-local-offer"
       THEN \* the answer to this end's offer
            LinkStep([rest EXCEPT !.end[e] = becameStable([x EXCEPT !.offered = FALSE])],
                     << >>, op)
       ELSE \* an answer without a pending offer: setRemoteDescription rejects
            LinkStep([rest EXCEPT !.end[e] = [x EXCEPT !.rejected = TRUE]], << >>, op)

\* Peer.inBand, after createAnswer(): setLocalDescription(answer), then
\* sendMeta({description}).  covered: the answer carries this end's added
\* tracks as well.
AnswerCreated(e, covered) ==
    LET x == link.end[e] IN
    /\ ~x.closed
    /\ x.answering
    /\ IF x.sig = "have-remote-offer"
       THEN LinkStep([link EXCEPT
                         !.end[e] = becameStable([x EXCEPT !.answering = FALSE,
                                                           !.want = x.want /\ ~covered]),
                         !.wire[Other(e)] = Append(@, Description("answer"))],
                     << >>, [op |-> "answerCreated", e |-> e])
       ELSE LinkStep([link EXCEPT
                         !.end[e] = [x EXCEPT !.answering = FALSE, !.rejected = TRUE]],
                     << >>, [op |-> "answerCreated", e |-> e])

\* the `_meta` channel of end e fires `open`: emitReady(), which resolves
\* every promise waiting on `ready`
MetaOpen(e) ==
    LET x == link.end[e] IN
    /\ ~x.closed
    /\ x.meta = "connecting"
    /\ LinkStep([link EXCEPT !.end[e] = [x EXCEPT !.meta = "open", !.waiting = 0]],
                <<Ev("ready", e), Ev("connect", e)>>, [op |-> "metaOpen", e |-> e])

\* the application of end e calls send(data, '_meta') with data that holds no
\* description
AppSendsMeta(e) ==
    LET x == link.end[e] IN
    /\ ~x.closed
    /\ x.meta = "open"
    /\ ~link.junk
    /\ LinkStep([link EXCEPT !.wire[Other(e)] = Append(@, Description("junk")),
                             !.junk = TRUE],
                << >>, [op |-> "appSendsMeta", e |-> e])

\* the other end has closed: onConnectionState sees 'disconnected' and
\* calls close()
RemoteClosed(e) ==
    LET x == link.end[e] IN
    /\ ~x.closed
    /\ link.end[Other(e)].closed
    /\ LinkStep([link EXCEPT !.end[e] = [x EXCEPT !.closed = TRUE]],
                <<Ev("close", e)>>, [op |-> "remoteClosed", e |-> e])

\* the steps the event loop takes on its own
NegotiationProgress ==
    \E e \in Ends :
        \/ OnNegotiationNeeded(e)
        \/ OfferCreated(e)
        \/ InBand(e)
        \/ \E covered \in BOOLEAN : AnswerCreated(e, covered)
        \/ MetaOpen(e)
        \/ RemoteClosed(e)

NextNegotiation ==
    \/ \E e \in Ends : AddMedia(e)
    \/ \E e \in Ends : OnNegotiationNeeded(e)
    \/ \E e \in Ends : OfferCreated(e)
    \/ \E e \in Ends : InBand(e)
    \/ \E e \in Ends, covered \in BOOLEAN : AnswerCreated(e, covered)
    \/ \E e \in Ends : MetaOpen(e)
    \/ \E e \in Ends : AppSendsMeta(e)
    \/ \E e \in Ends : RemoteClosed(e)

SpecNegotiation == InitNegotiation /\ [][NextNegotiation]_vars

\* every queued event is delivered and every pending promise settles
SpecNegotiationLive == SpecNegotiation /\ WF_vars(NegotiationProgress)

\* nothing of the negotiation is in flight at either end
Settled ==
    /\ \A e \in Ends : link.wire[e] = << >>
    /\ \A e \in Ends : LET x == link.end[e] IN
                       ~x.closed /\ ~x.event /\ ~x.offering /\ ~x.answering

\* C19: on glare the initiator ignores the incoming offer, the non-initiator
\* rolls its own offer back and accepts the initiator's, both ends are back
\* in signaling state stable once the exchange has settled, and neither end
\* emits `error`
C19_Glare ==
    /\ (last.op = "inBand" /\ last.glare /\ isInitiator(last.e)) =>
            /\ link.end[last.e].sig = last.sigBefore
            /\ ~link.end[last.e].answering
            /\ emitted = << >>
    /\ (last.op = "inBand" /\ last.glare /\ ~isInitiator(last.e)) =>
            /\ link.end[last.e].sig = "have-remote-offer"
            /\ link.end[last.e].answering
            /\ ~link.end[last.e].offered
            /\ emitted = << >>
    /\ (link.glared /\ Settled) => \A e \in Ends : link.end[e].sig = "stable"
    /\ (link.glared /\ ~link.junk) => \A e \in Ends : ~link.end[e].errors

\* both ends offered at once, the non-initiator rolled back, the initiator
\* has just ignored the colliding offer
C19_Witness ==
    /\ link.kind = "link" /\ link.glared
    /\ last.op = "inBand" /\ last.glare /\ isInitiator(last.e)
    /\ last.sigBefore = "have-local-offer"

\* after the glare both ends are stable again with every added track negotiated
C19_WitnessStable ==
    /\ link.kind = "link" /\ link.glared /\ ~link.junk /\ Settled
    /\ \A e \in Ends : link.end[e].sig = "stable" /\ link.end[e].adds > 0 /\ ~link.end[e].want

\* C17: on an open session the promise of addMedia resolves once the
\* renegotiation it triggered has finished (`ready` is emitted again)
C17_AddMediaResolves ==
    \A e \in Ends :
        (link.kind = "link" /\ link.end[e].meta = "open" /\ link.end[e].waiting > 0)
            ~> (link.end[e].waiting = 0 \/ link.end[e].closed)

\* addMedia was called on an open session, the renegotiation is over, the
\* promise is still pending
C17_Pending ==
    /\ link.kind = "link" /\ Settled /\ ~link.junk
    /\ \A e \in Ends : link.end[e].sig = "stable" /\ ~link.end[e].want /\ ~link.end[e].rejected
    /\ \E e \in Ends : link.end[e].meta = "open" /\ link.end[e].waiting > 0

(***************************************************************************)
(* The Offer Table of one TrackerConnector (src/src/tracker.ts).  Every    *)
(* announce with invites creates `Invites` initiator sessions; a session   *)
(* enters openOffers when it fires `signal`, and leaves it when it         *)
(* connects, fails, is evicted or the connector closes.  `offers` holds    *)
(*   openOffers     the offer ids of this.openOffers, in order             *)
(*   maxOpenOffers  this.maxOpenOffers                                     *)
(*   peers          the keys of this.peers                                 *)
(*   st             per offer id: "none", "created" (no `signal` yet),     *)
(*                  "signalled" (offering), "answered" (the answer was     *)
(*                  applied), "connected" or "destroyed"                   *)
(*   made           offers created so far                                  *)
(*   announces      the getAnnouncePacket() calls awaiting their offers:   *)
(*                  [ids, waiting, intro]                                  *)
(***************************************************************************)
OfferIds == 1..MaxOffers

\* private maxOpenOffers: number = 10
DefaultMaxOpenOffers == 10

OffersFresh ==
    [kind |-> "offers", openOffers |-> << >>, maxOpenOffers |-> DefaultMaxOpenOffers,
     peers |-> {}, st |-> [i \in OfferIds |-> "none"], made |-> 0, announces |-> {}]

InitOffers ==
    /\ opts = DefaultOpts
    /\ required = {}
    /\ Fresh
    /\ connector = NoConn
    /\ instances = NoInstances
    /\ session = NoSession
    /\ link = NoLink
    /\ offers = OffersFresh
    /\ BesideIdle

\* a handler of the connector: the new table, its name and inputs
OfferStep(o, op) ==
    /\ offers' = o
    /\ emitted' = << >>
    /\ last' = op
    /\ SupervisorUnchanged
    /\ UNCHANGED <<connector, instances, session, link, beside>>

\* TrackerConnector.retractOffer
retractOffer(o, offerID, killPeer) ==
    IF \E i \in 1..Len(o.openOffers) : o.openOffers[i] = offerID
    THEN [o EXCEPT !.st[offerID] = IF killPeer THEN "destroyed" ELSE @,
                   !.peers = @ \ {offerID},
                   !.openOffers = SelectSeq(@, LAMBDA x : x # offerID)]
    ELSE o

\* createOffer evicting the newest entry
toEvict_Newest(q) == q[Len(q)]

\* createOffer: the entry the loop retracts, this.openOffers[0]
toEvict(q) == Head(q)

\* createOffer: while (openOffers.length > maxOpenOffers) retractOffer(...)
RECURSIVE evictLoop(_)
evictLoop(o) ==
    IF Len(o.openOffers) > o.maxOpenOffers
    THEN evictLoop(retractOffer(o, toEvict(o.openOffers), TRUE))
    ELSE o

\* TrackerConnector.close: every open offer is retracted
RECURSIVE retractAll(_, _)
retractAll(o, ids) ==
    IF ids = << >> THEN o ELSE retractAll(retractOffer(o, Head(ids), TRUE), Tail(ids))

\* getAnnouncePacket(event, invites) up to its await: maxOpenOffers is set and
\* createOffer() called `invites` times.  intro: called by onMessage
\* ('started'), otherwise by reAnnounce.
Announce(intro) ==
    LET ids == (offers.made + 1)..(offers.made + Invites) IN
    /\ offers.made + Invites <= MaxOffers
    /\ OfferStep([offers EXCEPT
                    !.maxOpenOffers = Invites * 2,
                    !.made = @ + Invites,
                    !.peers = @ \cup ids,
                    !.st = [i \in OfferIds |-> IF i \in ids THEN "created" ELSE @[i]],
                    !.announces = @ \cup {[ids |-> ids, waiting |-> ids, intro |-> intro]}],
                 [op |-> "announce", intro |-> intro])

\* createOffer: the `signal` listener of offer id
OfferSignal(id) ==
    LET pushed == [offers EXCEPT !.openOffers = Append(@, id), !.st[id] = "signalled"]
        o == evictLoop(pushed)
    IN
    /\ offers.st[id] = "created"
    /\ OfferStep([o EXCEPT !.announces =
                     {[a EXCEPT !.waiting = @ \ {id}] : a \in @}],
                 [op |-> "signal", id |-> id, before |-> offers.openOffers])

\* getAnnouncePacket after Promise.all: the packet holds the offers and is sent
AnnounceSent(a) ==
    /\ a \in offers.announces
    /\ a.waiting = {}
    /\ OfferStep([offers EXCEPT !.announces = @ \ {a}],
                 [op |-> "announceSent", ids |-> a.ids])

\* createOffer: the `error` listener of offer id.  The rejection reaches
\* kill() through onMessage's catch; reAnnounce's catch(this.kill) calls kill
\* without its receiver, which throws before close().
OfferError(id) ==
    LET o == [retractOffer(offers, id, TRUE) EXCEPT !.st[id] = "destroyed"]
        failed == {a \in offers.announces : id \in a.waiting}
        kept == [o EXCEPT !.announces = @ \ failed]
    IN
    /\ offers.st[id] \in {"created", "signalled", "answered"}
    /\ OfferStep(IF \E a \in failed : a.intro
                 THEN retractAll(kept, kept.openOffers)
                 ELSE kept,
                 [op |-> "offerError", id |-> id])

\* onMessage: the tracker relays a remote peer's answer to an announced
\* offer: this.peers[msg.offer_id].signal(msg.answer)
OfferAnswer(id) ==
    /\ offers.st[id] = "signalled"
    /\ id \in offers.peers
    /\ \A a \in offers.announces : id \notin a.ids
    /\ OfferStep([offers EXCEPT !.st[id] = "answered"],
                 [op |-> "offerAnswer", id |-> id])

\* onMessage: `peer.id = msg.peer_id` runs before `if (peer)`: with no
\* session under msg.offer_id it throws a TypeError
answerThrows(o, id) == id \notin o.peers

\* onMessage: the tracker relays an answer whose offer_id has no session in
\* this.peers (never issued, retracted, or connected).  st: what became of
\* the offer of that id.
OfferAnswerUnknown(id) ==
    /\ id \notin offers.peers
    /\ OfferStep(offers, [op |-> "answerUnknown", st |-> offers.st[id],
                          threw |-> answerThrows(offers, id)])

\* makePeer: the `connect` listener of an offer whose answer was applied:
\* retractOffer(offerID, false)
OfferConnect(id) ==
    /\ offers.st[id] = "answered"
    /\ OfferStep([retractOffer(offers, id, FALSE) EXCEPT !.st[id] = "connected"],
                 [op |-> "offerConnect", id |-> id])

\* TrackerConnector.close (socket closed or kill())
OffersClose ==
    /\ offers.openOffers # << >>
    /\ OfferStep(retractAll(offers, offers.openOffers), [op |-> "close"])

NextOffers ==
    \/ \E intro \in BOOLEAN : Announce(intro)
    \/ \E id \in OfferIds : OfferSignal(id)
    \/ \E a \in offers.announces : AnnounceSent(a)
    \/ \E id \in OfferIds : OfferError(id)
    \/ \E id \in OfferIds : OfferAnswer(id)
    \/ \E id \in OfferIds : OfferAnswerUnknown(id)
    \/ \E id \in OfferIds : OfferConnect(id)
    \/ OffersClose

SpecOffers == InitOffers /\ [][NextOffers]_vars

\* C20: the Offer Table never holds more than maxOpenOffers = 2 x invites
\* entries; an offer generated into a full table evicts exactly the oldest
\* entries, and the sessions of the evicted offers are destroyed
C20_OfferTable ==
    offers.kind = "offers" =>
        /\ Len(offers.openOffers) <= offers.maxOpenOffers
        /\ offers.made > 0 => offers.maxOpenOffers = 2 * Invites
        /\ last.op = "signal" =>
              LET all == Append(last.before, last.id)
                  k == Len(all) - Len(offers.openOffers)
              IN /\ k = IF Len(all) > offers.maxOpenOffers
                        THEN Len(all) - offers.maxOpenOffers ELSE 0
                 /\ offers.openOffers = SubSeq(all, k + 1, Len(all))
                 /\ \A i \in 1..k : /\ offers.st[all[i]] = "destroyed"
                                    /\ all[i] \notin offers.peers

\* an offer was generated into a full table and the oldest entry evicted
C20_Witness ==
    /\ offers.kind = "offers"
    /\ last.op = "signal"
    /\ Len(last.before) = offers.maxOpenOffers
    /\ Len(offers.openOffers) = offers.maxOpenOffers
    /\ offers.st[Head(last.before)] = "destroyed"

\* C21: every offer_id of the Offer Table has a session registered under it
\* that is not destroyed and is still offering (no answer applied yet)
C21_OffersHalfOpen ==
    offers.kind = "offers" =>
        \A i \in 1..Len(offers.openOffers) :
            /\ offers.openOffers[i] \in offers.peers
            /\ offers.st[offers.openOffers[i]] = "signalled"

\* C32: an inbound answer whose offer_id is not in the connector's table
\* (never issued, already evicted, or already matched) is ignored: no
\* exception is raised (that no session and no table entry changes is how
\* OfferAnswerUnknown leaves `offers`)
C32_UnknownAnswerIgnored ==
    offers.kind = "offers" => (last.op = "answerUnknown" => ~last.threw)

\* an answer arrived for an offer that had been evicted or retracted
C32_AnswerForEvicted ==
    /\ offers.kind = "offers"
    /\ last.op = "answerUnknown"
    /\ last.st = "destroyed"
    /\ last.threw

(***************************************************************************)
(* Subscribable (src/unnamed/part_004), the emitter under Switchboard and  *)
(* the connectors.  `subs` holds                                           *)
(*   events   this.events: event -> the callbacks of its Set, in insertion *)
(*            order; an event without key is not in the domain             *)
(*   handles  the unregister closures handed out so far: the event and     *)
(*            callback each closes over, and how often it has been called  *)
(* A callback is the application's function `fn`, or the wrapper once()    *)
(* builds around it (once = the number of its handle).  The function "bad" *)
(* throws when it is called.                                               *)
(***************************************************************************)
EventNames == {"e1", "e2"}
Fns == {"f", "g", "bad"}
throws(fn) == fn = "bad"

SubsFresh == [kind |-> "subs", events |-> EmptyMap, handles |-> << >>]

InitSubs ==
    /\ opts = DefaultOpts
    /\ required = {}
    /\ Fresh
    /\ connector = NoConn
    /\ instances = NoInstances
    /\ session = NoSession
    /\ link = NoLink
    /\ offers = NoOffers
    /\ subs = SubsFresh
    /\ wrapper = NoWrapper
    /\ server = NoServer
    /\ cands = NoCands

\* a call on the Subscribable: its new state, the call and what it returned
SubsStep(sb, op) ==
    /\ subs' = sb
    /\ emitted' = << >>
    /\ last' = op
    /\ SupervisorUnchanged
    /\ UNCHANGED <<connector, instances, session, link, offers, wrapper, server, cands>>

\* Set.add
setAdd(q, cb) == IF \E i \in 1..Len(q) : q[i] = cb THEN q ELSE Append(q, cb)

\* Set.delete
setDelete(q, cb) == SelectSeq(q, LAMBDA x : x # cb)

\* subscribe: events[event] = events[event] || new Set(); events[event].add(callback)
added(ev, e, cb) ==
    IF e \in DOMAIN ev THEN [ev EXCEPT ![e] = setAdd(@, cb)] ELSE MapPut(ev, e, <<cb>>)

\* the closure subscribe returns; throwing: events[event] is undefined
unregisterThrows(ev, e) == e \notin DOMAIN ev

\* the closure subscribe returns: events[event].delete(callback), and the
\* key is deleted with the last callback
unregister(ev, e, cb) ==
    IF setDelete(ev[e], cb) = << >>
    THEN [x \in DOMAIN ev \ {e} |-> ev[x]]
    ELSE [ev EXCEPT ![e] = setDelete(@, cb)]

\* Subscribable.subscribe(event, callback)
Subscribe(e, fn) ==
    LET cb == [fn |-> fn, once |-> 0] IN
    /\ Len(subs.handles) < MaxHandles
    /\ SubsStep([subs EXCEPT !.events = added(@, e, cb),
                             !.handles = Append(@, [e |-> e, cb |-> cb, calls |-> 0])],
                [op |-> "subscribe", e |-> e])

\* Subscribable.once(event, callback): subscribe with a wrapper that
\* unregisters itself, then calls the callback
Once(e, fn) ==
    LET cb == [fn |-> fn, once |-> Len(subs.handles) + 1] IN
    /\ Len(subs.handles) < MaxHandles
    /\ SubsStep([subs EXCEPT !.events = added(@, e, cb),
                             !.handles = Append(@, [e |-> e, cb |-> cb, calls |-> 0])],
                [op |-> "once", e |-> e])

\* the application calls the closure that call i of subscribe/once returned
Unsubscribe(i) ==
    LET h == subs.handles[i]
        called == [subs EXCEPT !.handles[i].calls = 1]
    IN
    /\ i \in 1..Len(subs.handles)
    /\ IF unregisterThrows(subs.events, h.e)
       THEN SubsStep(called, [op |-> "unsubscribe", i |-> i, first |-> h.calls = 0,
                              threw |-> TRUE, before |-> subs.events])
       ELSE SubsStep([called EXCEPT !.events = unregister(@, h.e, h.cb)],
                     [op |-> "unsubscribe", i |-> i, first |-> h.calls = 0,
                      threw |-> FALSE, before |-> subs.events])

\* emit: listeners.forEach(l => l(val)) stops at the first callback that
\* throws; the callbacks invoked, in order
invoked(q) ==
    IF \E i \in 1..Len(q) : throws(q[i].fn)
    THEN SubSeq(q, 1, CHOOSE i \in 1..Len(q) :
                         /\ throws(q[i].fn)
                         /\ \A j \in 1..(i - 1) : ~throws(q[j].fn))
    ELSE q

\* the wrappers of once() among the invoked callbacks have unregistered themselves
RECURSIVE afterOnce(_, _, _)
afterOnce(sb, e, q) ==
    IF q = << >> THEN sb
    ELSE IF Head(q).once = 0 THEN afterOnce(sb, e, Tail(q))
    ELSE afterOnce([sb EXCEPT !.events = unregister(@, e, Head(q)),
                              !.handles[Head(q).once].calls = 1], e, Tail(q))

\* Subscribable.emit(event, val)
SubsEmit(e) ==
    LET q == IF e \in DOMAIN subs.events THEN subs.events[e] ELSE << >>
        run == invoked(q)
    IN
    SubsStep(afterOnce(subs, e, run),
             [op |-> "emit", e |-> e, listeners |-> q,
              calls |-> [i \in 1..Len(run) |-> run[i].fn],
              threw |-> \E i \in 1..Len(run) : throws(run[i].fn)])

NextSubs ==
    \/ \E e \in EventNames, fn \in Fns : Subscribe(e, fn)
    \/ \E e \in EventNames, fn \in Fns : Once(e, fn)
    \/ \E i \in 1..MaxHandles : Unsubscribe(i)
    \/ \E e \in EventNames : SubsEmit(e)

SpecSubs == InitSubs /\ [][NextSubs]_vars

\* C22: the first call of an unregister handle removes its callback, so a
\* later emit does not deliver to it; any further call neither throws nor
\* changes the registrations
C22_UnregisterIdempotent ==
    /\ (last.op = "unsubscribe" /\ last.first) =>
            /\ ~last.threw
            /\ \A e \in DOMAIN subs.events : \A k \in 1..Len(subs.events[e]) :
                  ~(e = subs.handles[last.i].e /\ subs.events[e][k] = subs.handles[last.i].cb)
    /\ (last.op = "unsubscribe" /\ ~last.first) =>
            /\ ~last.threw
            /\ subs.events = last.before

\* C23: emit invokes every callback registered for the event, in insertion
\* order, and no exception of a callback leaves emit
C23_EmitCatches ==
    last.op = "emit" =>
        /\ ~last.threw
        /\ last.calls = [i \in 1..Len(last.listeners) |-> last.listeners[i].fn]

(***************************************************************************)
(* PeerWrapper (src/src/tracker.ts), a simple-peer session, which is an    *)
(* EventEmitter: the listeners of an event form a list, on() appends,      *)
(* once() appends a listener that is removed when it is first invoked,     *)
(* removeAllListeners([event]) empties one list or all.  `wrapper` holds   *)
(*   listeners          per event, the registered listeners in order: the  *)
(*                      handler and the call that registered it ("on",     *)
(*                      "once" or "permanent")                             *)
(*   permanentHandlers  this.permanentHandlers: event -> handlers          *)
(*   made               on()/once()/permanent() calls so far               *)
(***************************************************************************)
Handlers == {"h1", "h2"}

WrapperFresh ==
    [kind |-> "wrapper", listeners |-> [e \in EventNames |-> << >>],
     permanentHandlers |-> EmptyMap, made |-> 0]

InitWrapper ==
    /\ opts = DefaultOpts
    /\ required = {}
    /\ Fresh
    /\ connector = NoConn
    /\ instances = NoInstances
    /\ session = NoSession
    /\ link = NoLink
    /\ offers = NoOffers
    /\ subs = NoSubs
    /\ wrapper = WrapperFresh
    /\ server = NoServer
    /\ cands = NoCands

\* a call on the PeerWrapper: its new state, the call and its inputs
WrapperStep(w, op) ==
    /\ wrapper' = w
    /\ emitted' = << >>
    /\ last' = op
    /\ SupervisorUnchanged
    /\ UNCHANGED <<connector, instances, session, link, offers, subs, server, cands>>

\* EventEmitter.on / once
listen(w, e, h, how) ==
    [w EXCEPT !.listeners[e] = Append(@, [h |-> h, how |-> how]), !.made = @ + 1]

WrapperOn(e, h) ==
    /\ wrapper.made < MaxListeners
    /\ WrapperStep(listen(wrapper, e, h, "on"), [op |-> "on", e |-> e])

WrapperOnce(e, h) ==
    /\ wrapper.made < MaxListeners
    /\ WrapperStep(listen(wrapper, e, h, "once"), [op |-> "once", e |-> e])

\* PeerWrapper.permanent(event, handler)
Permanent(e, h) ==
    LET kept == IF e \in DOMAIN wrapper.permanentHandlers
                THEN [wrapper.permanentHandlers EXCEPT ![e] = Append(@, h)]
                ELSE MapPut(wrapper.permanentHandlers, e, <<h>>)
    IN
    /\ wrapper.made < MaxListeners
    /\ WrapperStep(listen([wrapper EXCEPT !.permanentHandlers = kept], e, h, "permanent"),
                   [op |-> "permanent", e |-> e])

\* removeAllListeners that registers nothing again
reRegister_None(ph, e) == << >>

\* PeerWrapper.removeAllListeners: handlers.forEach(h => this.on(event, h))
reRegister(ph, e) ==
    IF e \in DOMAIN ph THEN [i \in 1..Len(ph[e]) |-> [h |-> ph[e][i], how |-> "permanent"]]
    ELSE << >>

\* PeerWrapper.removeAllListeners(event): super.removeAllListeners(event),
\* then the permanent handlers of the event are registered again
RemoveAllListeners(e) ==
    WrapperStep([wrapper EXCEPT !.listeners[e] = reRegister(wrapper.permanentHandlers, e)],
                [op |-> "removeAllListeners", cleared |-> {e},
                 dropped |-> {x \in EventNames :
                                \E i \in 1..Len(wrapper.listeners[x]) :
                                    wrapper.listeners[x][i].how # "permanent"}])

\* PeerWrapper.removeAllListeners(): every event is cleared, and the
\* handlers of Object.keys(permanentHandlers) are registered again
RemoveAllListenersAll ==
    WrapperStep([wrapper EXCEPT !.listeners =
                    [e \in EventNames |-> reRegister(wrapper.permanentHandlers, e)]],
                [op |-> "removeAllListeners", cleared |-> EventNames,
                 dropped |-> {x \in EventNames :
                                \E i \in 1..Len(wrapper.listeners[x]) :
                                    wrapper.listeners[x][i].how # "permanent"}])

\* EventEmitter.emit(event): every listener is invoked in order, the
\* listeners of once() are removed
WrapperEmit(e) ==
    LET q == wrapper.listeners[e] IN
    WrapperStep([wrapper EXCEPT !.listeners[e] = SelectSeq(q, LAMBDA x : x.how # "once")],
                [op |-> "emit", e |-> e, calls |-> [i \in 1..Len(q) |-> q[i].h]])

NextWrapper ==
    \/ \E e \in EventNames, h \in Handlers : WrapperOn(e, h)
    \/ \E e \in EventNames, h \in Handlers : WrapperOnce(e, h)
    \/ \E e \in EventNames, h \in Handlers : Permanent(e, h)
    \/ \E e \in EventNames : RemoveAllListeners(e)
    \/ RemoveAllListenersAll
    \/ \E e \in EventNames : WrapperEmit(e)

SpecWrapper == InitWrapper /\ [][NextWrapper]_vars

\* how often handler h occurs in a sequence of handlers
RECURSIVE occurrences(_, _)
occurrences(q, h) ==
    IF q = << >> THEN 0
    ELSE (IF Head(q) = h THEN 1 ELSE 0) + occurrences(Tail(q), h)

\* the handlers of the listeners of event e that were registered by `how`
registeredBy(e, hows) ==
    LET q == SelectSeq(wrapper.listeners[e], LAMBDA x : x.how \in hows)
    IN [i \in 1..Len(q) |-> q[i].h]

C24_WitnessEmit ==
    /\ wrapper.kind = "wrapper"
    /\ last.op = "emit"
    /\ last.calls = <<"h1">>
    /\ wrapper.made = MaxListeners
    /\ registeredBy(last.e, {"permanent"}) = <<"h1">>

(***************************************************************************)
(* The peering server (src/unnamed/part_005).  `server` holds              *)
(*   passCode  the configured passCode (NoId = none)                       *)
(*   sock      per accepted socket, its SocketInfo and                     *)
(*               stage       "none", "open" (awaiting the intro packet),   *)
(*                           "validated", "terminated" (ws.terminate(),    *)
(*                           `close` not yet fired) or "closed"            *)
(*               intro       the intro packet that registered it           *)
(*               joins       the ids of the JOIN packets it was sent       *)
(*               dc          it was sent "dc"                              *)
(*               unanswered  pings sent to it since it last answered       *)
(*   clients   the Map `clients`: FullID or ShortID -> socket              *)
(*   channels  the record `channels`: channel -> [count, ids], ids in the  *)
(*             insertion order of the Map                                  *)
(* The packets the last handler sent are in `emitted`.                     *)
(***************************************************************************)
Socks == 1..NumSocks
PassCodes == {<<"p">>, <<"q">>}
NoIntro == [pub |-> 0]

SockFresh ==
    [stage |-> "none", id |-> NoId, shortId |-> NoId, channel |-> NoId,
     hosting |-> FALSE, isAlive |-> TRUE, intro |-> NoIntro, joins |-> {},
     dc |-> FALSE, unanswered |-> 0]

ServerFresh(passCode) ==
    [kind |-> "server", passCode |-> passCode, sock |-> [i \in Socks |-> SockFresh],
     clients |-> EmptyMap, channels |-> EmptyMap]

\* a handler of the server: its new state, the packets sent, its name
ServerStep(sv, sent, op) ==
    /\ server' = sv
    /\ emitted' = sent
    /\ last' = op
    /\ SupervisorUnchanged
    /\ UNCHANGED <<connector, instances, session, link, offers, subs, wrapper, cands>>

\* the channel names validate builds
swarmChannelOf(name) == [pre |-> "#", id |-> name]
hostChannelOf(target) == [pre |-> "host-", id |-> target]

JoinPacket(id) == [type |-> "JOIN", id |-> id]

\* sendClient: the socket that gets the packet, if any
receiver(sv, id) ==
    IF id \in DOMAIN sv.clients /\ sv.sock[sv.clients[id]].stage = "validated"
    THEN {sv.clients[id]} ELSE {}

\* sendClient(id, data)
sendClient(sv, id, data) ==
    [sv EXCEPT !.sock = [i \in Socks |->
        IF i \in receiver(sv, id) /\ data.type = "JOIN"
        THEN [@[i] EXCEPT !.joins = @ \cup {data.id}] ELSE @[i]]]

sentClient(sv, id, data) ==
    IF receiver(sv, id) = {} THEN << >>
    ELSE <<[to |-> sv.clients[id], data |-> data]>>

\* sendChannel(channel, data): sendClient for every id of the channel
RECURSIVE sendAll(_, _, _)
sendAll(sv, ids, data) ==
    IF ids = << >> THEN sv ELSE sendAll(sendClient(sv, Head(ids), data), Tail(ids), data)

RECURSIVE sentAll(_, _, _)
sentAll(sv, ids, data) ==
    IF ids = << >> THEN << >>
    ELSE sentClient(sv, Head(ids), data) \o sentAll(sv, Tail(ids), data)

channelIds(sv, ch) == IF ch \in DOMAIN sv.channels THEN sv.channels[ch].ids ELSE << >>
sendChannel(sv, ch, data) == sendAll(sv, channelIds(sv, ch), data)
sentChannel(sv, ch, data) == sentAll(sv, channelIds(sv, ch), data)

\* addChannelListener(channelId, clientId)
addChannelListener(sv, ch, clientId) ==
    [sv EXCEPT !.channels =
        IF ch \in DOMAIN @
        THEN [@ EXCEPT ![ch] = [count |-> @.count + 1, ids |-> setAdd(@.ids, clientId)]]
        ELSE MapPut(@, ch, [count |-> 1, ids |-> <<clientId>>])]

\* removeChannelListener(channelId, clientId)
removeChannelListener(sv, ch, clientId) ==
    LET c == IF ch \in DOMAIN sv.channels THEN sv.channels[ch]
             ELSE [count |-> 0, ids |-> << >>]
    IN [sv EXCEPT !.channels =
           IF c.count - 1 <= 0 THEN MapDel(@, ch)
           ELSE MapPut(@, ch, [count |-> c.count - 1, ids |-> setDelete(c.ids, clientId)])]

\* the wss `connection` handler: a socket is accepted
SockConnect(i) ==
    /\ server.sock[i].stage = "none"
    /\ \A j \in 1..(i - 1) : server.sock[j].stage # "none"
    /\ ServerStep([server EXCEPT !.sock[i].stage = "open"], << >>,
                  [op |-> "connection", i |-> i])

\* validate without the comparison of the id with the hash
introAccepted_NoHash(passCode, intro) ==
    /\ ~(passCode # NoId /\ intro.pass # passCode)
    /\ NaclVerify(intro.pub, intro.sig, intro.pub)

\* validate: the three checks of the intro packet
introAccepted(passCode, intro) ==
    /\ ~(passCode # NoId /\ intro.pass # passCode)
    /\ NaclVerify(intro.pub, intro.sig, intro.pub)
    /\ intro.id = makeFullID(intro.pub)

\* validate after the checks: the socket is registered and the JOINs sent
registered(sv, i, intro, mode) ==
    LET longId == makeFullID(intro.pub)
        shortId == Substr(longId, SHORT_ID_LENGTH)
        swarm == IF mode.swarmChannel # NoId THEN swarmChannelOf(mode.swarmChannel) ELSE NoId
        chan == IF mode.hostTarget # NoId THEN hostChannelOf(mode.hostTarget) ELSE swarm
        s1 == [sv EXCEPT !.sock[i] = [@ EXCEPT !.stage = "validated", !.id = longId,
                                               !.shortId = shortId, !.channel = chan,
                                               !.hosting = mode.hosting, !.intro = intro],
                         !.clients = MapPut(MapPut(@, longId, i), shortId, i)]
        toSwarm == swarm # NoId /\ mode.hostTarget = NoId
        s2 == IF toSwarm THEN sendChannel(s1, swarm, JoinPacket(longId)) ELSE s1
        m2 == IF toSwarm THEN sentChannel(s1, swarm, JoinPacket(longId)) ELSE << >>
        host == IF mode.hostTarget # NoId /\ mode.hostTarget \in DOMAIN s2.clients
                THEN s2.sock[s2.clients[mode.hostTarget]] ELSE SockFresh
        toSelf == host.hosting /\ host.id # NoId
        s3 == IF toSelf THEN sendClient(s2, longId, JoinPacket(host.id)) ELSE s2
        m3 == IF toSelf THEN sentClient(s2, longId, JoinPacket(host.id)) ELSE << >>
        s4 == IF chan # NoId THEN addChannelListener(s3, chan, longId) ELSE s3
        s5 == IF mode.hosting
              THEN sendChannel(s4, hostChannelOf(shortId), JoinPacket(shortId)) ELSE s4
        m5 == IF mode.hosting
              THEN sentChannel(s4, hostChannelOf(shortId), JoinPacket(shortId)) ELSE << >>
        s6 == IF mode.hosting
              THEN sendChannel(s5, hostChannelOf(longId), JoinPacket(longId)) ELSE s5
        m6 == IF mode.hosting
              THEN sentChannel(s5, hostChannelOf(longId), JoinPacket(longId)) ELSE << >>
    IN [sv |-> s6, sent |-> m2 \o m3 \o m5 \o m6]

\* validate and its then/catch in the connection handler: the first message
\* of socket i is the intro packet
Validate(i, intro, mode) ==
    /\ server.sock[i].stage = "open"
    /\ IF introAccepted(server.passCode, intro)
       THEN LET r == registered(server, i, intro, mode) IN
            ServerStep(r.sv, r.sent, [op |-> "validate", i |-> i, ok |-> TRUE, intro |-> intro])
       ELSE ServerStep([server EXCEPT !.sock[i] =
                           [@ EXCEPT !.stage = "terminated", !.dc = TRUE]],
                       << >>, [op |-> "validate", i |-> i, ok |-> FALSE, intro |-> intro])

\* the `from` a relayed packet carries if the sender's own value is kept
relayFrom_Claimed(sockId, packet) == packet.from

\* onClientMessage: from: sockId
relayFrom(sockId, packet) == sockId

\* the `message` handler of a validated socket and onClientMessage, for a
\* packet that parses
ClientMessage(i, packet) ==
    LET me == server.sock[i]
        heard == [server EXCEPT !.sock[i].isAlive = TRUE, !.sock[i].unanswered = 0]
        data == [type |-> "MSG", from |-> relayFrom(me.id, packet)]
    IN
    /\ me.stage = "validated"
    /\ IF packet.targetClient # NoId
       THEN ServerStep(sendClient(heard, packet.targetClient, data),
                       sentClient(heard, packet.targetClient, data),
                       [op |-> "message", i |-> i, packet |-> packet,
                        known |-> packet.targetClient \in DOMAIN server.clients])
       ELSE ServerStep(heard, << >>, [op |-> "message", i |-> i, packet |-> packet,
                                      known |-> FALSE])

\* onClientMessage for a message that is no JSON: ws.terminate()
ClientGarbage(i) ==
    /\ server.sock[i].stage = "validated"
    /\ ServerStep([server EXCEPT !.sock[i] =
                      [@ EXCEPT !.isAlive = TRUE, !.unanswered = 0, !.stage = "terminated"]],
                  << >>, [op |-> "garbage", i |-> i])

\* the `pong` handler, and the text 'pong' a validated socket sends
ClientPong(i) ==
    /\ server.sock[i].stage = "validated"
    /\ server.sock[i].unanswered > 0
    /\ ServerStep([server EXCEPT !.sock[i].isAlive = TRUE, !.sock[i].unanswered = 0],
                  << >>, [op |-> "pong", i |-> i])

\* the `close` handler of socket i (the client left, the read timed out, or
\* the socket was terminated)
ClientClose(i) ==
    LET me == server.sock[i]
        s1 == IF me.id # NoId
              THEN LET d == [server EXCEPT !.clients = MapDel(@, me.id)] IN
                   IF me.channel # NoId THEN removeChannelListener(d, me.channel, me.id) ELSE d
              ELSE server
        s2 == IF me.shortId # NoId THEN [s1 EXCEPT !.clients = MapDel(@, me.shortId)] ELSE s1
    IN
    /\ me.stage \in {"open", "validated", "terminated"}
    /\ ServerStep([s2 EXCEPT !.sock[i].stage = "closed"], << >>,
                  [op |-> "close", i |-> i])

\* the ping interval: the sockets clients.forEach visits
visited(sv) == {sv.clients[key] : key \in {k \in DOMAIN sv.clients :
                                              k # sv.sock[sv.clients[k]].shortId}}

PingTick ==
    LET seen == visited(server)
        dead == {i \in seen : ~server.sock[i].isAlive}
        pinged == {i \in seen \ dead : server.sock[i].stage = "validated"}
    IN
    /\ \E i \in Socks : server.sock[i].stage = "validated"
    /\ ServerStep([server EXCEPT !.sock = [i \in Socks |->
                      IF i \in dead
                      THEN [@[i] EXCEPT !.stage = IF @ = "closed" THEN @ ELSE "terminated"]
                      ELSE IF i \in seen
                      THEN [@[i] EXCEPT !.isAlive = FALSE,
                                        !.unanswered = IF i \in pinged THEN @ + 1 ELSE @]
                      ELSE @[i]]],
                  << >>,
                  [op |-> "ping", pinged |-> pinged, terminated |-> dead,
                   waiting |-> {i \in Socks : server.sock[i].unanswered > 0}])

\* the intro packets a socket can send: any key, a signature by any key
\* holder, any claimed id, either passCode
Intros ==
    [pub : Keys, sig : {NaclSign(k, signer) : k \in Keys, signer \in Keys},
     id : {makeFullID(k) : k \in Keys}, pass : PassCodes]

\* the ids a joiner can name: the ShortID or the FullID of a key
HostTargets == {makeID(k) : k \in Keys} \cup {makeFullID(k) : k \in Keys}

Modes ==
    [hosting : BOOLEAN, hostTarget : {NoId} \cup HostTargets,
     swarmChannel : {NoId, <<"s">>}]

\* what SpsConnector sends: host, join a host, or swarm
ClientModes ==
    {m \in Modes : \/ m.hosting /\ m.hostTarget = NoId /\ m.swarmChannel = NoId
                   \/ ~m.hosting /\ m.hostTarget # NoId /\ m.swarmChannel = NoId
                   \/ ~m.hosting /\ m.hostTarget = NoId /\ m.swarmChannel # NoId}

\* one client of each kind: a host, a joiner of key 1 by ShortID, a swarm member
SomeModes ==
    {m \in ClientModes : m.hostTarget \in {NoId, makeID(1)}}

ClientPackets == [targetClient : {NoId} \cup HostTargets, from : {makeFullID(k) : k \in Keys}]

InitServer ==
    /\ opts = DefaultOpts
    /\ required = {}
    /\ Fresh
    /\ connector = NoConn
    /\ instances = NoInstances
    /\ session = NoSession
    /\ link = NoLink
    /\ offers = NoOffers
    /\ subs = NoSubs
    /\ wrapper = NoWrapper
    /\ \E passCode \in {NoId, <<"p">>} : server = ServerFresh(passCode)
    /\ cands = NoCands

RelaySocks == 1..NumRelaySocks

NextServer ==
    \/ \E i \in RelaySocks : SockConnect(i)
    \/ \E i \in RelaySocks, intro \in Intros, mode \in SomeModes : Validate(i, intro, mode)
    \/ \E i \in RelaySocks, packet \in ClientPackets : ClientMessage(i, packet)
    \/ \E i \in RelaySocks : ClientGarbage(i)
    \/ \E i \in RelaySocks : ClientClose(i)

SpecServer == InitServer /\ [][NextServer]_vars

\* the sockets the client table names
Registered == {server.clients[key] : key \in DOMAIN server.clients}

\* the three checks, as the intro packet of a socket must meet them
PassedChecks(intro) ==
    /\ intro.pub \in Keys
    /\ server.passCode # NoId => intro.pass = server.passCode
    /\ intro.sig = NaclSign(intro.pub, intro.pub)
    /\ intro.id = makeFullID(intro.pub)

\* C25: every MSG packet the server delivers carries the FullID under which
\* the sending socket was validated as `from`, whatever the sender wrote; a
\* MSG for a target that is not registered is dropped and changes neither the
\* client table, the channels nor any socket's registration
C25_Step ==
    /\ \A k \in 1..Len(emitted') :
          emitted'[k].data.type = "MSG" =>
              /\ last'.op = "message"
              /\ server.sock[last'.i].stage = "validated"
              /\ emitted'[k].data.from = makeFullID(server.sock[last'.i].intro.pub)
              /\ emitted'[k].to = server.clients[last'.packet.targetClient]
    /\ (last'.op = "message" /\ ~last'.known) =>
          /\ emitted' = << >>
          /\ server' = [server EXCEPT !.sock[last'.i].isAlive = TRUE,
                                      !.sock[last'.i].unanswered = 0]

C25_RelayFrom == [][C25_Step]_vars

\* a MSG was delivered whose sender had written another `from`
C25_Witness ==
    /\ server.kind = "server"
    /\ last.op = "message"
    /\ Len(emitted) = 1
    /\ emitted[1].data.from # last.packet.from

\* a MSG for an unregistered target was dropped
C25_WitnessDropped ==
    /\ server.kind = "server"
    /\ last.op = "message"
    /\ last.packet.targetClient # NoId
    /\ ~last.known
    /\ \E i \in Socks \ {last.i} : server.sock[i].stage = "validated"

\* C26: a socket is in the client table (under its FullID and ShortID) and
\* has its messages relayed only after its first message passed the passCode,
\* signature and hash checks; a socket that fails one is sent "dc" and
\* terminated, and is never registered or relayed
C26_ValidatedOnly ==
    server.kind = "server" =>
        /\ \A key \in DOMAIN server.clients :
              LET s == server.sock[server.clients[key]] IN
              /\ PassedChecks(s.intro)
              /\ key \in {makeFullID(s.intro.pub), makeID(s.intro.pub)}
        /\ (last.op = "message" /\ emitted # << >>) =>
              PassedChecks(server.sock[last.i].intro)
        /\ last.op = "validate" =>
              /\ last.ok = PassedChecks(last.intro)
              /\ last.ok =>
                    /\ makeFullID(last.intro.pub) \in DOMAIN server.clients
                    /\ makeID(last.intro.pub) \in DOMAIN server.clients
                    /\ server.clients[makeFullID(last.intro.pub)] = last.i
                    /\ server.clients[makeID(last.intro.pub)] = last.i
              /\ ~last.ok =>
                    /\ server.sock[last.i].dc
                    /\ server.sock[last.i].stage = "terminated"
        /\ \A i \in Socks :
              server.sock[i].dc =>
                  /\ server.sock[i].stage \in {"terminated", "closed"}
                  /\ server.sock[i].id = NoId
                  /\ i \notin Registered

\* with a passCode configured, one socket failed a check and another has
\* just been registered
C26_Witness ==
    /\ server.kind = "server"
    /\ server.passCode # NoId
    /\ last.op = "validate" /\ last.ok
    /\ \E i \in Socks : server.sock[i].dc

(***************************************************************************)
(* Hosts and joiners on the peering server: the holder of key 1 hosts, the *)
(* holder of key 2 joins it by ShortID or FullID, every intro packet is    *)
(* valid, and a client may be connected through more than one socket (it   *)
(* reconnected before the server saw the old socket close).                *)
(***************************************************************************)
HostKey == 1

\* the intro packet SpsConnector builds for the holder of key k
ValidIntro(k) ==
    [pub |-> k, sig |-> NaclSign(k, k), id |-> makeFullID(k), pass |-> <<"p">>]

JoinModes(k) ==
    IF k = HostKey
    THEN {m \in ClientModes : m.hosting}
    ELSE {m \in ClientModes : m.hostTarget \in {makeID(HostKey), makeFullID(HostKey)}}

InitJoin ==
    /\ opts = DefaultOpts
    /\ required = {}
    /\ Fresh
    /\ connector = NoConn
    /\ instances = NoInstances
    /\ session = NoSession
    /\ link = NoLink
    /\ offers = NoOffers
    /\ subs = NoSubs
    /\ wrapper = NoWrapper
    /\ server = ServerFresh(NoId)
    /\ cands = NoCands

NextJoin ==
    \/ \E i \in Socks : SockConnect(i)
    \/ \E i \in Socks, k \in Keys : \E mode \in JoinModes(k) : Validate(i, ValidIntro(k), mode)
    \/ \E i \in Socks : ClientClose(i)

SpecJoin == InitJoin /\ [][NextJoin]_vars

\* socket j is a connected joiner of the host connected through socket h
JoinerOf(j, h) ==
    /\ server.sock[j].stage = "validated"
    /\ server.sock[h].stage = "validated"
    /\ server.sock[h].hosting
    /\ server.sock[j].channel # NoId
    /\ server.sock[j].channel.pre = "host-"
    /\ server.sock[j].channel.id \in {server.sock[h].id, server.sock[h].shortId}

\* C27: while a joiner of H and the hosting client H are both connected, the
\* joiner has been sent a JOIN naming H, whichever of them was validated
\* first
C27_JoinerGetsJoin ==
    server.kind = "server" =>
        \A j \in Socks, h \in Socks :
            JoinerOf(j, h) =>
                \E s \in Socks :
                    /\ server.sock[s].stage = "validated"
                    /\ server.sock[s].id = server.sock[j].id
                    /\ server.sock[s].joins \cap
                           {server.sock[h].id, server.sock[h].shortId} # {}

(***************************************************************************)
(* The ping interval of the peering server, with the clients of SpecJoin.  *)
(***************************************************************************)
NextPing ==
    \/ \E i \in RelaySocks : SockConnect(i)
    \/ \E i \in RelaySocks, k \in Keys : \E mode \in JoinModes(k) :
          Validate(i, ValidIntro(k), mode)
    \/ \E i \in RelaySocks : ClientPong(i)
    \/ \E i \in RelaySocks :
          ClientMessage(i, [targetClient |-> NoId, from |-> server.sock[i].id])
    \/ \E i \in RelaySocks : ClientClose(i)
    \/ PingTick

SpecPing == InitJoin /\ [][NextPing]_vars

\* C28: a ping tick pings every validated client; a client with two
\* unanswered pings is not left connected; the tick terminates no client
\* that has answered its last ping or sent a message since
C28_Liveness ==
    server.kind = "server" =>
        /\ last.op = "ping" =>
              \A i \in Socks :
                  server.sock[i].stage = "validated" =>
                      \E s \in last.pinged : server.sock[s].id = server.sock[i].id
        /\ \A i \in Socks :
              server.sock[i].stage = "validated" => server.sock[i].unanswered < 2
        /\ last.op = "ping" => last.terminated \subseteq last.waiting

(***************************************************************************)
(* SpecCandidates: the candidates handed to Switchboard.onPeer, each with  *)
(* its peer.timeoutTracker and its once('data') handler, on a started      *)
(* Switchboard.  The verification of the first message is dataAccepted;    *)
(* the blacklist and its timers are those of addPeerFailure.               *)
(***************************************************************************)
NoCand == [st |-> "none", id |-> NoId, timer |-> FALSE, once |-> FALSE]

CandFresh == [kind |-> "cands", c |-> [s \in Sessions |-> NoCand]]

\* the options: the defaults, or a blacklist that is configured
CandOpts == {DefaultOpts} \cup BlacklistOpts

InitCands ==
    /\ opts \in CandOpts
    /\ required = {}
    /\ started = TRUE
    /\ wantedPeerCount \in 1..NumKeys
    /\ wantedSpecificID = NoId
    /\ killed = FALSE
    /\ trackers = {}
    /\ connState = [t \in Connectors |-> "none"]
    /\ canEmit = TRUE
    /\ connected = EmptyMap
    /\ blacklist = EmptyMap
    /\ blTimers = {}
    /\ peers = [s \in Sessions |-> NoPeer]
    /\ spsPeers = [t \in Connectors |-> EmptyMap]
    /\ nextPeer = 0
    /\ peerEmitted = {}
    /\ killEmits = 0
    /\ emitted = << >>
    /\ last = [op |-> "init"]
    /\ connector = NoConn
    /\ instances = NoInstances
    /\ session = NoSession
    /\ link = NoLink
    /\ offers = NoOffers
    /\ subs = NoSubs
    /\ wrapper = NoWrapper
    /\ server = NoServer
    /\ cands = CandFresh

\* a handler of onPeer ran: the candidates, the map, the blacklist after it
CandStep(cs, conn, bl, tm, evs, op) ==
    /\ cands' = [cands EXCEPT !.c = cs]
    /\ connected' = conn
    /\ blacklist' = bl
    /\ blTimers' = tm
    /\ emitted' = evs
    /\ last' = op
    /\ UNCHANGED <<opts, required, started, wantedPeerCount, wantedSpecificID,
                   killed, trackers, connState, canEmit, peers, spsPeers,
                   nextPeer, peerEmitted, killEmits, connector, instances,
                   session, link, offers, subs, wrapper, server>>

\* the permanent `close` handler without its clearTimeout
timerAfterClose_Kept(timer) == timer

\* the permanent `close` handler of onPeer: clearTimeout(peer.timeoutTracker)
timerAfterClose(timer) == FALSE

\* the once('data') handler of onPeer: clearTimeout(peer.timeoutTracker)
timerAfterData(timer) == FALSE

\* peer.close() on an accepted candidate: its `close` event and the handler
candClosed(cd) ==
    [st |-> "closed", id |-> cd.id, timer |-> timerAfterClose(cd.timer),
     once |-> FALSE]

\* a connector emits `peer`: Switchboard.onPeer(peer)
CandOnPeer(s, id, hasLocalSdp) ==
    /\ cands.c[s].st = "none"
    /\ \A r \in Sessions : r < s => cands.c[r].st # "none"
    /\ LET op == [op |-> "onPeer", s |-> s, id |-> id]
           accepted == [st |-> "pending", id |-> id, timer |-> TRUE, once |-> TRUE]
       IN
       IF onPeerRejects(connected, id)
       THEN \* peer.close(true): no timer, no handler
            CandStep([cands.c EXCEPT ![s] = [st |-> "rejected", id |-> id,
                                              timer |-> FALSE, once |-> FALSE]],
                     connected, blacklist, blTimers, << >>, op)
       ELSE IF ~hasLocalSdp
       THEN \* warn, peer.fatalError(): `error`, then close() and its handler
            CandStep([cands.c EXCEPT ![s] = candClosed(accepted)],
                     onClose(onPeerRegister(connected, id, s), id),
                     blacklist, blTimers,
                     <<Ev("warn", id), Ev("peer-error", id)>>, op)
       ELSE CandStep([cands.c EXCEPT ![s] = accepted],
                     onPeerRegister(connected, id, s),
                     blacklist, blTimers, << >>, op)

\* the first message of a candidate arrives: the once('data') handler
CandData(s, pkt, remoteSdp, stable) ==
    /\ cands.c[s].st = "pending"
    /\ cands.c[s].once
    /\ LET cd == cands.c[s]
           cleared == [cd EXCEPT !.timer = timerAfterData(cd.timer), !.once = FALSE]
           f == addPeerFailure(blacklist, blTimers, cd.id, 1)
           op == [op |-> "data", s |-> s]
       IN
       IF dataAccepted(cd.id, pkt, remoteSdp, stable)
       THEN CandStep([cands.c EXCEPT ![s] = [cleared EXCEPT !.st = "authed"]],
                     connected, MapDel(blacklist, cd.id), blTimers,
                     <<Ev("peer", cd.id)>>, op)
       ELSE CandStep([cands.c EXCEPT ![s] = candClosed(cleared)],
                     onClose(connected, cd.id), f.bl, f.tm,
                     <<Ev("warn", cd.id)>> \o f.ev, op)

\* peer.timeoutTracker fires: addPeerFailure(peer, 1), peer.close()
CandTimeout(s) ==
    /\ cands.c[s].timer
    /\ LET cd == cands.c[s]
           fired == [cd EXCEPT !.timer = FALSE]
           f == addPeerFailure(blacklist, blTimers, cd.id, 1)
           op == [op |-> "timeout", s |-> s, id |-> cd.id, st |-> cd.st]
       IN
       IF cd.st \in {"pending", "authed"}
       THEN CandStep([cands.c EXCEPT ![s] = candClosed(fired)],
                     onClose(connected, cd.id), f.bl, f.tm, f.ev, op)
       ELSE \* close() on a closed session does nothing
            CandStep([cands.c EXCEPT ![s] = fired], connected, f.bl, f.tm, f.ev, op)

\* an accepted candidate closes (the remote end, or the application)
CandClose(s) ==
    /\ cands.c[s].st \in {"pending", "authed"}
    /\ CandStep([cands.c EXCEPT ![s] = candClosed(cands.c[s])],
                onClose(connected, cands.c[s].id), blacklist, blTimers, << >>,
                [op |-> "close", s |-> s])

NextCands ==
    \/ \E s \in Sessions, id \in TrackerIds, hasLocalSdp \in BOOLEAN :
          CandOnPeer(s, id, hasLocalSdp)
    \/ \E s \in Sessions, k \in Keys, stable \in BOOLEAN :
          CandData(s, makeSigPacket(k, 1), 1, stable)
    \/ \E s \in Sessions : CandTimeout(s)
    \/ \E s \in Sessions : CandClose(s)
    \/ \E id \in TrackerIds : BlacklistExpire([id |-> id, rem |-> 0])
    \/ Tick

SpecCandidates == InitCands /\ [][NextCands]_vars

\* setTimeout: a timer that stays armed fires
SpecCandidatesLive ==
    SpecCandidates /\ \A s \in Sessions : WF_vars(CandTimeout(s))

\* the failure count of an id (an id without an entry has none)
failures(bl, id) == IF id \in DOMAIN bl THEN bl[id] ELSE 0

\* the timer of candidate last'.s fired in this step: the candidate is closed
\* and its id is gone from `connected`
C29_ClosedAndRemoved ==
    /\ cands'.c[last'.s].st = "closed"
    /\ ~cands'.c[last'.s].timer
    /\ last'.id \notin DOMAIN connected'

\* the timer fired: the count of the id went up by 1 when a blacklist is
\* configured and the id is not blacklisted yet, and no count moved otherwise
C29_Step ==
    last'.op = "timeout" =>
        /\ last'.st = "pending"
        /\ C29_ClosedAndRemoved
        /\ IF opts.clientBlacklistDuration # 0 /\ ~isBlackListed(last'.id)
           THEN blacklist' = MapPut(blacklist, last'.id,
                                    Plus(failures(blacklist, last'.id), 1))
           ELSE blacklist' = blacklist

\* the timer fired: the count of the id went up by 1, whatever the options
C29_OriginalStep ==
    last'.op = "timeout" =>
        /\ last'.st = "pending"
        /\ C29_ClosedAndRemoved
        /\ failures(blacklist', last'.id) = Plus(failures(blacklist, last'.id), 1)

\* a timer is armed only for a candidate that awaits its first message, and
\* `connected` holds only candidates that are open
C29_TimerCancelled ==
    /\ \A s \in Sessions : cands.c[s].timer => cands.c[s].st = "pending" /\ cands.c[s].once
    /\ \A id \in DOMAIN connected : cands.c[connected[id]].st \in {"pending", "authed"}

\* no candidate awaits its first message forever
C29_NoneForever ==
    \A s \in Sessions : (cands.c[s].st = "pending") ~> (cands.c[s].st # "pending")

\* C29 (as amended): a candidate accepted by onPeer that delivers no first
\* message within clientTimeout gets addPeerFailure(peer, 1) - its failure
\* count goes up by 1 when clientBlacklistDuration is set and the id is not
\* blacklisted already, and no count changes otherwise - is closed and is
\* removed from `connected`; no unauthenticated candidate stays in
\* `connected` forever; the timer is cancelled when the candidate closes or
\* its first message arrives.
C29_Timeout == [][C29_Step]_vars /\ []C29_TimerCancelled /\ C29_NoneForever

\* C29 (as stated): the same, with the failure count incremented by 1 on
\* every timeout.
C29_Original == [][C29_OriginalStep]_vars /\ []C29_TimerCancelled /\ C29_NoneForever

\* a timer fired on a silent candidate and its id has one failure now
C29_Witness ==
    /\ last.op = "timeout"
    /\ last.st = "pending"
    /\ cands.c[last.s].st = "closed"
    /\ last.id \notin DOMAIN connected
    /\ failures(blacklist, last.id) = 1

\* a first message was accepted and the timer of the candidate is cancelled
C29_WitnessCancelled ==
    /\ last.op = "data"
    /\ cands.c[last.s].st = "authed"
    /\ ~cands.c[last.s].timer

(***************************************************************************)
(* The TrackerConnector's reaction to socket errors and closes, over       *)
(* SpecSockets.                                                            *)
(***************************************************************************)
\* the handler that just ran emitted `kill`
KillEmitted(evs) == \E i \in 1..Len(evs) : evs[i].ev = "kill"

\* the handler that just ran set one reconnect timer, with the backoff delay
C30_Scheduled ==
    /\ connector'.timers = connector.timers + 1
    /\ connector'.delay = Min(connector'.tries, MAX_CONNECT_TRIES) * RECONNECT_UNIT
    /\ ~KillEmitted(emitted')

\* the handler that just ran killed the connector with ConnectionFailed and
\* set no timer
C30_Killed ==
    /\ emitted'[Len(emitted')] = Ev("kill", "ConnectionFailed")
    /\ connector'.killed
    /\ ~connector'.shouldReconnect
    /\ connector'.timers = connector.timers

C30_Step ==
    (connector.kind = "tracker" /\ ~connector.killed) =>
        /\ (last'.op = "onError" /\ ~connector.everConnected) => C30_Killed
        /\ (last'.op \in {"onError", "onClose", "onOldClose"}
                /\ connector.everConnected) => C30_Scheduled

\* C30: for a TrackerConnector, a socket error before the connector has ever
\* connected kills it with ConnectionFailed and schedules no reconnect; a
\* socket error or close after a successful connect schedules a reconnect
\* after min(connectTries, 10) x 2000 ms and emits no `kill`.
C30_ErrorOrClose == [][C30_Step]_vars

\* the same with `connected` read as the flag didConnect, which onError
\* clears: after an error the connector counts as never connected
C30_FlagStep ==
    (connector.kind = "tracker" /\ ~connector.killed) =>
        /\ (last'.op = "onError" /\ ~connector.didConnect) => C30_Killed
        /\ (last'.op = "onError" /\ connector.didConnect) => C30_Scheduled
        /\ (last'.op \in {"onClose", "onOldClose"}) => C30_Scheduled

C30_ByFlag == [][C30_FlagStep]_vars

\* a connector that has connected is killed by the error of a later socket
C30_KilledAfterConnect ==
    /\ connector.kind = "tracker"
    /\ last.op = "onError"
    /\ connector.everConnected
    /\ connector.killed
    /\ KillEmitted(emitted)

(***************************************************************************)
(* SpecSocketsLive: SpecSockets where every connection attempt of the      *)
(* SpsConnector ends, every socket it closed reports `close` and every     *)
(* reconnect timer fires.  Each of these steps changes `connector`.        *)
(***************************************************************************)
\* a connection attempt ends: ws.onopen, or ws.onerror / ws.onclose
SpsAttemptEnds ==
    \E origin \in {"first", "retry"} : SpsOpened(origin) \/ SpsOpenFailed(origin)

\* the close event of an attached socket that was closed
SpsClosingCloses == connector.sock = "closing" /\ SpsOnClose

SpecSocketsLive ==
    /\ SpecSockets
    /\ WF_connector(SpsAttemptEnds)
    /\ WF_connector(SpsClosingCloses)
    /\ WF_connector(SpsTimer)

\* the connector is attached to an open socket, or it was killed
AttachedOrKilled == connector.sock = "open" \/ connector.killed

\* the first connection attempt failed in this step: `kill` was emitted
C31_FirstFailureKills ==
    (/\ connector.kind = "sps"
     /\ last'.op = "openFailed"
     /\ connector'.attempts.first < connector.attempts.first)
        => (connector'.killed /\ KillEmitted(emitted'))

\* the retry counter is 0 after every attach, and a timer that finds more
\* than maxReconnects retries kills
C31_Retries ==
    connector.kind = "sps" =>
        /\ last'.op = "opened" => connector'.tries = 0
        /\ (last'.op = "timer" /\ connector.tries + 1 > MaxReconnects)
              => (connector'.killed /\ KillEmitted(emitted'))

\* C31: the SpsConnector emits `kill` when its very first connection attempt
\* fails; after it has connected once, a disconnect leads to reconnect
\* attempts (retry counter reset to 0 on each attach) that end with `kill`
\* once more than maxReconnects attempts in a row have failed; so, whatever
\* the sockets do, a connector that was told to connect is eventually
\* attached to an open socket or killed.
C31_ReconnectPolicy ==
    /\ [][C31_FirstFailureKills /\ C31_Retries]_vars
    /\ [](connector.kind = "sps" /\ connector # SpsFresh => <>AttachedOrKilled)

\* the same for a connector whose first attempt succeeded
C31_AfterFirstConnect ==
    /\ [][C31_Retries]_vars
    /\ [](connector.kind = "sps" /\ connector.everConnected => <>AttachedOrKilled)

\* the first attempt has failed and nothing is pending: the connector is
\* neither attached nor killed
C31_Limbo ==
    /\ connector.kind = "sps"
    /\ last.op = "openFailed"
    /\ ~connector.everConnected
    /\ ~connector.killed
    /\ connector.sock = "none"
    /\ connector.attempts = [first |-> 0, retry |-> 0]
    /\ connector.timers = 0

(***************************************************************************)
(* SpecHandshake: the handshake() calls of one Peer Session that are in    *)
(* flight (src/src/peer.ts: handshake, makeOffer, makeAnswer, waitForICE). *)
(* `session` holds, besides closed, pcCloses and closeEmits,               *)
(*   trickleICE  config.trickleICE                                         *)
(*   calls       per handshake() call so far: its role ("offer" for        *)
(*               handshake() / makeOffer, "answer" for a remote offer) and *)
(*               its stage: "creating" (createOffer, or                    *)
(*               setRemoteDescription and createAnswer, pending), "local"  *)
(*               (setLocalDescription pending), "ice" (waitForICE          *)
(*               pending), "done" (`handshake` emitted) or "failed"        *)
(*   iceDone     awaitICE has resolved                                     *)
(*   timers      the calls whose trickleTimeout timer is pending           *)
(*   late        the events emitted while the session was closed           *)
(* An operation of a closed RTCPeerConnection never resolves: it stays     *)
(* pending or rejects, and the connection fires no event.  A listener of   *)
(* the application may call close() while it is invoked (closeIn).         *)
(***************************************************************************)
MaxCalls == 2         \* handshake() calls on one session

Roles == {"offer", "answer"}

\* the event during whose emission a listener closes the session, if any
CloseIns == {"never", "iceEvent", "iceFinished"}

ShakeFresh(trickleICE) ==
    [kind |-> "handshake", closed |-> FALSE, pcCloses |-> 0, closeEmits |-> 0,
     trickleICE |-> trickleICE, calls |-> << >>, iceDone |-> FALSE,
     timers |-> {}, late |-> {}]

InitHandshake ==
    /\ opts = DefaultOpts
    /\ required = {}
    /\ Fresh
    /\ connector = NoConn
    /\ instances = NoInstances
    /\ \E trickleICE \in BOOLEAN : session = ShakeFresh(trickleICE)
    /\ link = NoLink
    /\ offers = NoOffers
    /\ BesideIdle

\* the events as Ev records
evs(names) == [i \in 1..Len(names) |-> Ev(names[i], 0)]

\* close() with the timers: this.timers.forEach(t => clearTimeout(t))
shakeClose(p) ==
    LET c == peerClose(p, DefaultIntentional) IN
    [p |-> IF p.closed THEN p ELSE [c.p EXCEPT !.timers = {}], ev |-> c.ev]

\* the session after emit(name) for each of n continuations; a listener
\* closes it during the first emission when closeIn = name
emitted_n(p, n, name, closeIn) ==
    LET late == IF p.closed /\ n > 0 THEN p.late \cup {name} ELSE p.late
        q == [p EXCEPT !.late = late]
        c == shakeClose(q)
    IN  IF n > 0 /\ closeIn = name
        THEN [p |-> [c.p EXCEPT !.late =
                        IF n > 1 /\ ~q.closed THEN @ \cup {name} ELSE @],
              ev |-> evs([i \in 1..1 |-> name]) \o c.ev
                        \o evs([i \in 1..(n - 1) |-> name])]
        ELSE [p |-> q, ev |-> evs([i \in 1..n |-> name])]

\* waitForICE's then and what follows it for the calls in `waiting`:
\* emit('iceFinished') in each, then pc.localDescription is returned and
\* handshake() emits `handshake`
afterICE(p, waiting, closeIn) ==
    LET n == Cardinality(waiting)
        a == emitted_n(p, n, "iceFinished", closeIn)
        b == emitted_n(a.p, n, "handshake", closeIn)
    IN  [p |-> [b.p EXCEPT !.calls = [i \in DOMAIN @ |->
                    IF i \in waiting THEN [@[i] EXCEPT !.stage = "done"] ELSE @[i]]],
         ev |-> a.ev \o b.ev]

\* handshake(data): `initiate`, or the offer of the remote peer
HandshakeCall(role) ==
    /\ Len(session.calls) < MaxCalls
    /\ PeerStep(IF session.closed THEN session
                ELSE [session EXCEPT !.calls =
                         Append(@, [role |-> role, stage |-> "creating"])],
                << >>, [op |-> "handshake", role |-> role])

\* handshake(data) with neither sdp nor candidate: fatalError
HandshakeInvalid ==
    LET r == peerFatalError(session) IN
    PeerStep(IF session.closed THEN session ELSE [r.p EXCEPT !.timers = {}],
             IF session.closed THEN << >> ELSE r.ev,
             [op |-> "handshakeInvalid"])

\* the pending operation of call i resolves; after setLocalDescription the
\* call reaches waitForICE
OperationResolves(i, closeIn) ==
    /\ i \in DOMAIN session.calls
    /\ ~session.closed
    /\ session.calls[i].stage \in {"creating", "local"}
    /\ LET op == [op |-> "resolves", i |-> i, closeIn |-> closeIn] IN
       IF session.calls[i].stage = "creating"
       THEN PeerStep([session EXCEPT !.calls[i].stage = "local"], << >>, op)
       ELSE IF session.trickleICE
       THEN \* waitForICE returns null: no `iceFinished`
            LET b == emitted_n(session, 1, "handshake", closeIn) IN
            PeerStep([b.p EXCEPT !.calls[i].stage = "done"], b.ev, op)
       ELSE IF session.iceDone
       THEN \* the race is won by awaitICE at once; the timer stays pending
            LET r == afterICE([session EXCEPT !.timers = @ \cup {i}], {i}, closeIn) IN
            PeerStep(r.p, r.ev, op)
       ELSE PeerStep([session EXCEPT !.calls[i].stage = "ice",
                                     !.timers = @ \cup {i}], << >>, op)

\* the pending operation of call i rejects.  makeOffer and makeAnswer pass
\* this.fatalError unbound to catch(): it throws a TypeError, the call
\* rejects; handshake() catches that for an answer and calls fatalError.
OperationRejects(i) ==
    /\ i \in DOMAIN session.calls
    /\ session.calls[i].stage \in {"creating", "local"}
    /\ LET failed == [session EXCEPT !.calls[i].stage = "failed"]
           r == peerFatalError(failed)
           op == [op |-> "rejects", i |-> i]
       IN
       IF session.calls[i].role = "answer" /\ ~session.closed
       THEN PeerStep([r.p EXCEPT !.timers = {}], r.ev, op)
       ELSE PeerStep(failed, << >>, op)

\* pc.onicecandidate with candidate === null: emit('iceEvent'), res()
IceComplete(closeIn) ==
    /\ ~session.closed
    /\ ~session.iceDone
    /\ LET waiting == {i \in DOMAIN session.calls : session.calls[i].stage = "ice"}
           a == emitted_n(session, 1, "iceEvent", closeIn)
           r == afterICE([a.p EXCEPT !.iceDone = TRUE], waiting, closeIn)
       IN  PeerStep(r.p, a.ev \o r.ev, [op |-> "iceComplete", closeIn |-> closeIn])

\* the trickleTimeout timer of call i fires: res() of the race
IceTimeout(i, closeIn) ==
    /\ i \in session.timers
    /\ LET fired == [session EXCEPT !.timers = @ \ {i}]
           r == afterICE(fired, {i}, closeIn)
           op == [op |-> "iceTimeout", i |-> i, closeIn |-> closeIn]
       IN  IF session.calls[i].stage = "ice"
           THEN PeerStep(r.p, r.ev, op)
           ELSE PeerStep(fired, << >>, op)

\* close() is called on the session
ShakeCloseCall ==
    LET c == shakeClose(session) IN
    /\ ~session.closed
    /\ PeerStep(c.p, c.ev, [op |-> "close"])

NextHandshake ==
    \/ \E role \in Roles : HandshakeCall(role)
    \/ HandshakeInvalid
    \/ \E i \in 1..MaxCalls, closeIn \in CloseIns : OperationResolves(i, closeIn)
    \/ \E i \in 1..MaxCalls : OperationRejects(i)
    \/ \E closeIn \in CloseIns : IceComplete(closeIn)
    \/ \E i \in 1..MaxCalls, closeIn \in CloseIns : IceTimeout(i, closeIn)
    \/ ShakeCloseCall

SpecHandshake == InitHandshake /\ [][NextHandshake]_vars

\* C33: a handshake() call that is awaiting offer/answer creation or ICE
\* completion when its session is closed emits no `handshake` event, nor any
\* other event, after the close
C33_NoEventAfterClose == session.kind = "handshake" => session.late = {}

\* the session was closed by a call of close() between two steps (no
\* listener closed it) while a handshake() call was in flight: that call
\* has emitted nothing since
C33_ClosedBetweenSteps ==
    (/\ session.kind = "handshake"
     /\ last.op \in {"resolves", "iceComplete", "iceTimeout"}
     /\ last.closeIn = "never") => session.late = {}

\* `handshake` was emitted by a call whose session a listener had closed
C33_LateHandshake ==
    /\ session.kind = "handshake"
    /\ session.closed
    /\ "handshake" \in session.late

(***************************************************************************)
(* SpecKill: a hosting Switchboard with the default options, the           *)
(* candidates its connectors deliver for one remote peer, and kill().      *)
(***************************************************************************)
NextKill ==
    \/ Start("HOST", 0, NoId)
    \/ \E t \in Connectors : TrackerOnMessage(t, makeID(1))
    \/ \E t \in Connectors : SpsSendHandshake(t, makeFullID(1))
    \/ \E t \in Connectors : SpsHandleHandshake(t, makeFullID(1))
    \/ \E s \in Sessions : HandshakeFails(s)
    \/ \E s \in Sessions : PeerConnect(s, TRUE)
    \/ \E s \in Sessions, k \in Keys : FirstData(s, makeSigPacket(k, 1), 1, TRUE)
    \/ \E s \in Sessions : ClientTimeout(s)
    \/ \E s \in Sessions : PeerClose(s)
    \/ \E killPeers \in BOOLEAN : Kill(killPeers)

SpecKill == Init /\ [][NextKill]_vars

\* a step of a killed supervisor: no `peer` event, no new key in `connected`
C34_Step ==
    killed =>
        /\ peerEmitted' \subseteq peerEmitted
        /\ DOMAIN connected' \subseteq DOMAIN connected

\* C34: after kill() has been called on the supervisor it emits no further
\* `peer` event and adds no entry to `connected`, also when a candidate is
\* delivered by a connector or an authentication completes after the kill
C34_KillIsTerminal == [][C34_Step]_vars

\* the part about `connected` alone
C34_NoNewEntry == [][killed => DOMAIN connected' \subseteq DOMAIN connected]_vars

\* the part about `peer` alone
C34_NoPeerEvent == [][killed => peerEmitted' \subseteq peerEmitted]_vars

\* a killed supervisor has just emitted `peer`
C34_PeerAfterKill ==
    /\ killed
    /\ last.op = "data"
    /\ \E i \in 1..Len(emitted) : emitted[i].ev = "peer"

(***************************************************************************)
(* Admission after a failure (under SpecGate).                             *)
(***************************************************************************)
\* C35: a peer whose failure count has not exceeded clientMaxRetries stays
\* admissible: after findHost (wantedPeerCount = 1), with blacklisting on,
\* a sighting of the wanted host that has one failure recorded and no
\* session in `connected` is admitted by shouldBlockConnection
C35_StaysAdmissible ==
    (/\ last.op = "sighting"
     /\ wantedSpecificID # NoId
     /\ wantedPeerCount = 1
     /\ ~PrefixDiffers(emitted[1].arg)
     /\ failures(blacklist, emitted[1].arg) = 1
     /\ failures(blacklist, emitted[1].arg) <= maxRetries
     /\ emitted[1].arg \notin DOMAIN connected) => ~last.blocked

\* the same sighting while no other id has a failure recorded either: the
\* host's own single failure fills the blacklist
C35_OwnFailureBlocks ==
    /\ last.op = "sighting"
    /\ last.blocked
    /\ wantedPeerCount = 1
    /\ ~PrefixDiffers(emitted[1].arg)
    /\ DOMAIN blacklist = {emitted[1].arg}
    /\ blacklist[emitted[1].arg] = 1
    /\ connected = EmptyMap

(***************************************************************************)
(* `kill` events of a connector (under SpecSockets).                       *)
(***************************************************************************)
\* C36: each connector emits `kill` at most once over its lifetime: a
\* handler that runs after kill() has been called emits no `kill`, also the
\* close handler of the socket kill() closed and a further kill() call
C36_KillEmittedOnce == [][connector.killed => ~KillEmitted(emitted')]_vars

\* the same for the TrackerConnector alone
C36_TrackerOnce ==
    [][(connector.kind = "tracker" /\ connector.killed)
          => ~KillEmitted(emitted')]_vars

\* the same for the SpsConnector alone
C36_SpsOnce ==
    [][(connector.kind = "sps" /\ connector.killed) => ~KillEmitted(emitted')]_vars

\* the same for the handlers of the sockets and timers alone (no second
\* kill() call from outside)
C36_OwnHandlersOnce ==
    [][(connector.killed /\ last'.op # "kill") => ~KillEmitted(emitted')]_vars

(***************************************************************************)
(* Timers and sockets of a TrackerConnector (under SpecSockets).           *)
(***************************************************************************)
\* the WebSockets of the connector that are connecting or open.  A socket
\* that connect() replaced was closed by close() just before (oldSocks
\* counts sockets that only have their close event to come).
liveSockets(c) == IF c.sock \in {"connecting", "open"} THEN 1 ELSE 0

\* C37: a TrackerConnector has at most one pending reconnect timer and at
\* most one live WebSocket at any time, also when a failing socket reports
\* both `error` and `close` for the same failure
C37_OneTimerOneSocket ==
    connector.kind = "tracker" =>
        /\ connector.timers <= 1
        /\ liveSockets(connector) <= 1

\* the part about the timers alone
C37_OneTimer == connector.kind = "tracker" => connector.timers <= 1

\* two reconnect timers are pending after one failure of a connected socket
C37_TwoTimers ==
    /\ connector.kind = "tracker"
    /\ connector.timers = 2
    /\ connector.tries = 2
    /\ last.op = "onClose"

(***************************************************************************)
(* The client table of the peering server and the sockets that are open   *)
(* (under SpecJoin).                                                       *)
(***************************************************************************)
\* socket i is reachable: the table maps its FullID and its ShortID to a
\* validated socket of the same identity
Reachable(sv, i) ==
    \A key \in {sv.sock[i].id, sv.sock[i].shortId} :
        /\ key \in DOMAIN sv.clients
        /\ sv.sock[sv.clients[key]].stage = "validated"
        /\ sv.sock[sv.clients[key]].id = sv.sock[i].id

\* C38: every validated socket that is still open stays reachable through
\* the client table, also after another socket of the same identity closed
C38_OpenIsReachable ==
    server.kind = "server" =>
        \A i \in Socks :
            server.sock[i].stage = "validated" => Reachable(server, i)

\* without a second socket of the same identity the table is right: a
\* validated socket whose identity no other socket ever had is reachable
C38_SingleSocketReachable ==
    server.kind = "server" =>
        \A i \in Socks :
            /\ server.sock[i].stage = "validated"
            /\ \A j \in Socks \ {i} : server.sock[j].id # server.sock[i].id
            => Reachable(server, i)

\* a client is connected through an open, validated socket and the table
\* has no entry for its FullID
C38_OpenButUnreachable ==
    /\ server.kind = "server"
    /\ \E i \in Socks :
          /\ server.sock[i].stage = "validated"
          /\ server.sock[i].id \notin DOMAIN server.clients

(***************************************************************************)
(* Two pending sessions of one SpsConnector for one target id (under      *)
(* Spec).                                                                  *)
(***************************************************************************)
\* the sessions a step closes
ClosedInStep == {x \in Sessions : peers[x].st # "closed" /\ peers'[x].st = "closed"}

\* the entries a step removes from the pending map of connector t
RemovedInStep(t) ==
    {id \in DOMAIN spsPeers[t] : id \notin DOMAIN spsPeers'[t]}

\* two pending sessions of one connector were made for the same id: the
\* older one is no longer the one registered
C39_Superseded ==
    \E x \in Sessions :
        /\ peers[x].st \in {"idle", "handshaking"}
        /\ peers[x].sps # 0
        /\ peers[x].id \in DOMAIN spsPeers[peers[x].sps]
        /\ spsPeers[peers[x].sps][peers[x].id] # x
        /\ peers[spsPeers[peers[x].sps][peers[x].id]].st \in {"idle", "handshaking"}

\* the close or timeout of one pending session closes that session alone and
\* removes only an entry that held a session closed in the step
C39_Step ==
    last'.op = "handshakeFails" =>
        /\ Cardinality(ClosedInStep) <= 1
        /\ \A t \in Connectors : \A id \in RemovedInStep(t) :
              spsPeers[t][id] \in ClosedInStep

\* C39: the close or timeout of one pending session of an SpsConnector never
\* closes another session registered for the same target id, and removes
\* from the pending map only the entry of the session that closed
C39_OnlyOwnEntry == [][C39_Step]_vars

\* while no pending session was superseded under its id, a session closes
\* alone and only its own entry is removed
C39_RegisteredStep == ~C39_Superseded => C39_Step

C39_RegisteredOnly == [][C39_RegisteredStep]_vars

\* a superseded session timed out and the newer session of the same id was
\* closed with it
C39_NewerClosed ==
    /\ last.op = "handshakeFails"
    /\ \E x, y \in Sessions :
          /\ x < y
          /\ peers[x].st = "closed" /\ peers[y].st = "closed"
          /\ spsPeers = [t \in Connectors |-> EmptyMap]
          /\ nextPeer = 2

(***************************************************************************)
(* Swarm channels of the peering server: who is sent the JOIN.            *)
(***************************************************************************)
SwarmModes == {m \in ClientModes : m.swarmChannel # NoId}

NextSwarm ==
    \/ \E i \in Socks : SockConnect(i)
    \/ \E i \in Socks, k \in Keys : \E mode \in SwarmModes : Validate(i, ValidIntro(k), mode)
    \/ \E i \in Socks : ClientClose(i)

SpecSwarm == InitJoin /\ [][NextSwarm]_vars

\* sockets a and b are two connected members of one swarm channel
SwarmPair(sv, a, b) ==
    /\ a # b
    /\ sv.sock[a].stage = "validated" /\ sv.sock[b].stage = "validated"
    /\ sv.sock[a].id # sv.sock[b].id
    /\ sv.sock[a].channel # NoId
    /\ sv.sock[a].channel.pre = "#"
    /\ sv.sock[a].channel = sv.sock[b].channel

\* exactly one of two connected members was sent the JOIN naming the other
OneJoinBetween(sv) ==
    \A a, b \in Socks :
        SwarmPair(sv, a, b) =>
            (sv.sock[b].id \in sv.sock[a].joins) # (sv.sock[a].id \in sv.sock[b].joins)

\* no connected client was sent a JOIN naming itself
NoSelfJoin(sv) ==
    \A a \in Socks :
        sv.sock[a].stage = "validated" => sv.sock[a].id \notin sv.sock[a].joins

\* the JOINs validate sends for a swarm member go to the members that were
\* there before and name the one that joins
ToEarlierMembers ==
    (last'.op = "validate" /\ last'.ok) =>
        \A k \in DOMAIN emitted' :
            /\ emitted'[k].to # last'.i
            /\ server.sock[emitted'[k].to].stage = "validated"
            /\ emitted'[k].data = JoinPacket(makeFullID(last'.intro.pub))

C40_Step ==
    server'.kind = "server" =>
        /\ OneJoinBetween(server')
        /\ NoSelfJoin(server')
        /\ ToEarlierMembers

\* C40: between two clients that joined the same swarm channel and stay
\* connected exactly one JOIN is delivered, to the earlier member and naming
\* the later one, and a joining client is never sent a JOIN naming itself
C40_OneJoin == [][C40_Step]_vars

\* every identity connected through one socket only
OneSocketEach(sv) ==
    \A a, b \in Socks :
        (a # b /\ sv.sock[a].id # NoId) => sv.sock[a].id # sv.sock[b].id

\* while no identity was validated on a second socket, the JOINs are as
\* stated
C40_SingleStep == OneSocketEach(server') => C40_Step

C40_SingleSocket == [][C40_SingleStep]_vars

\* a client validated on a second socket while its first was registered was
\* sent the JOIN naming itself
C40_SelfJoin ==
    /\ server.kind = "server"
    /\ \E a \in Socks :
          /\ server.sock[a].stage = "validated"
          /\ server.sock[a].id \in server.sock[a].joins

\* two members, each on its only socket, and the earlier one was sent the
\* JOIN naming the later one
C40_Delivered ==
    /\ server.kind = "server"
    /\ OneSocketEach(server)
    /\ \E a, b \in Socks :
          /\ SwarmPair(server, a, b)
          /\ server.sock[b].id \in server.sock[a].joins

\* two connected members of one swarm channel and no JOIN was delivered
\* between them
C40_NoJoin ==
    /\ server.kind = "server"
    /\ \E a, b \in Socks :
          /\ SwarmPair(server, a, b)
          /\ server.sock[b].id \notin server.sock[a].joins
          /\ server.sock[a].id \notin server.sock[b].joins

====
